---- MODULE Spec2Model ----
(***************************************************************************)
(* Authentication context resolution of lib/auth/index.ts together with    *)
(* the lookups of lib/orm/index.ts it calls (fetchUser, fetchUserX,        *)
(* fetchPermission).  Strings whose content the code inspects (the         *)
(* Authorization header, access tokens, the user id column of a token row) *)
(* are sequences of one-character strings.  Each exported function is one  *)
(* action; the record `last` holds the latest call, its outcome and the    *)
(* caches and stores it touched.                                           *)
(***************************************************************************)
EXTENDS Integers, Sequences, FiniteSets, TLC

VARIABLES now, ticks, tokenStore, userStore, groupStore,
          tokenAuthCache, userCache, permissionCache, defaultPermission, last,
          inflight, change, first,
          subjects, interests, topics, posts, timeline, notifications,
          pending, resp, writes,
          twin, sessions, limiter

vars == <<now, ticks, tokenStore, userStore, groupStore,
          tokenAuthCache, userCache, permissionCache, defaultPermission, last,
          inflight, change, first,
          subjects, interests, topics, posts, timeline, notifications,
          pending, resp, writes,
          twin, sessions, limiter>>

\* the second credential module (its token cache and the result of its latest
\* call), the session store and the login rate limiter
others == <<twin, sessions, limiter>>

\* the tables of the route handlers, the requests suspended at an await, the
\* latest response and the number of requests that wrote a table
site == <<subjects, interests, topics, posts, timeline, notifications,
          pending, resp, writes, others>>

\* what the behaviours of Spec, in which calls are atomic and the tables are
\* not written, leave as it is: the calls suspended at an await, the external
\* change of a table and the earlier call a later one is compared with
ext == <<inflight, change, first, site>>

-----------------------------------------------------------------------------
(* Bounds and program constants *)

\* number of clock advances in one behaviour
MaxTicks == 2

\* lib/auth/index.ts:113, 128, 133, 173
TokenTTL == 60 * 60 * 24
UserTTL == 60 * 60
PermissionTTL == 60 * 10
NsfwAge == 60 * 60 * 24 * 90

\* lib/auth/index.ts:53-55
nsfwRestrictedUIDs == {873244}

\* lib/auth/index.ts:17
tokenPrefix == <<"B", "e", "a", "r", "e", "r", " ">>

\* the clock value when the process starts, and the amounts it advances by:
\* one second, and one second less than the longest TTL, so that the second
\* before and the second of an expiry, of a token's expiredAt and of the
\* account-age threshold are all reached
StartTime == NsfwAge + TokenTTL
Steps == {1, TokenTTL - 1}

-----------------------------------------------------------------------------
(* JavaScript string operations used by byHeader *)

\* String.prototype.includes in the place of startsWith
startsWith_includes(s, p) ==
  \E i \in 1 .. (Len(s) - Len(p) + 1) : SubSeq(s, i, i + Len(p) - 1) = p

startsWith(s, p) == Len(s) >= Len(p) /\ SubSeq(s, 1, Len(p)) = p

\* the prefix taken one character short, so that its space stays in the token
slice_short(s, n) == IF n - 1 >= Len(s) THEN <<>> ELSE SubSeq(s, n, Len(s))

slice(s, n) == IF n >= Len(s) THEN <<>> ELSE SubSeq(s, n + 1, Len(s))

Digit(c) ==
  CASE c = "0" -> 0 [] c = "1" -> 1 [] c = "2" -> 2 [] c = "3" -> 3 [] c = "4" -> 4
    [] c = "5" -> 5 [] c = "6" -> 6 [] c = "7" -> 7 [] c = "8" -> 8 [] c = "9" -> 9

RECURSIVE intval(_)
intval(s) == IF s = <<>> THEN 0 ELSE intval(SubSeq(s, 1, Len(s) - 1)) * 10 + Digit(s[Len(s)])

-----------------------------------------------------------------------------
(* Permission records.  A record is the set of its keys and the set of the  *)
(* keys whose value is true; frozen tells whether Object.freeze was applied *)
(* and shared whether the object is the module-level defaultPermission.     *)

Flags == {"ban_post", "ban_visit", "user_ban", "subject_edit"}

PermObj(keys, on, frozen, shared) ==
  [keys |-> keys, on |-> on, frozen |-> frozen, shared |-> shared]

\* perms.flag read as a condition: a missing key reads undefined, which is falsy
Has(p, f) == f \in p.keys /\ f \in p.on

\* the object literal {}
EmptyPermission == PermObj({}, {}, FALSE, FALSE)

-----------------------------------------------------------------------------
(* The stores: rows of chii_oauth_access_tokens, chii_members and           *)
(* chii_usergroup.  A behaviour starts in one of the Worlds.                *)

S(c) == <<c>>
Far == StartTime + 10 * TokenTTL

TokenRow(t, uid, client, exp) ==
  [accessToken |-> t, userID |-> uid, clientID |-> client, expiredAt |-> exp]
UserRow(id, name, g, reg) == [id |-> id, username |-> name, groupid |-> g, regdate |-> reg]
\* perm is the parsed form of the PHP-serialized column: hasPerm is FALSE for an
\* empty or NULL column, entries are the <<key, value>> pairs of the array
GroupRow(id, hasPerm, entries) == [id |-> id, hasPerm |-> hasPerm, entries |-> entries]

NormalPerm == {<<"subject_edit", "1">>, <<"ban_post", "0">>, <<"user_ban", "01">>}

Worlds ==
  { \* account age at the threshold second, and the restricted id
    [tokens |-> {TokenRow(S("a"), S("1"), "app1", StartTime + 1),
                 TokenRow(S("A"), <<"8", "7", "3", "2", "4", "4">>, "app2", Far)},
     users  |-> {UserRow(1, "u1", 10, StartTime + 1 - NsfwAge),
                 UserRow(873244, "u873244", 10, 0)},
     groups |-> {GroupRow(10, TRUE, NormalPerm)}],
    \* groups without a row in chii_usergroup
    [tokens |-> {TokenRow(S("a"), S("2"), "app1", Far),
                 TokenRow(S("b"), S("4"), "app1", Far)},
     users  |-> {UserRow(2, "u2", 0, 0), UserRow(4, "u4", 7, 0)},
     groups |-> {GroupRow(10, TRUE, NormalPerm)}],
    \* banned group, a group whose perm column is empty, a token row without user
    [tokens |-> {TokenRow(S("a"), S("3"), "app1", Far),
                 TokenRow(S("b"), S("5"), "app1", StartTime + PermissionTTL),
                 TokenRow(S("c"), <<>>, "app1", Far)},
     users  |-> {UserRow(3, "u3", 5, 0), UserRow(5, "u5", 6, 0)},
     groups |-> {GroupRow(5, TRUE, {<<"ban_post", "1">>, <<"ban_visit", "1">>}),
                 GroupRow(6, FALSE, {})}],
    \* user_ban alone, a new account, tokens of a missing user and of user "0",
    \* a token that expired before the process started
    [tokens |-> {TokenRow(S("a"), S("8"), "app1", Far),
                 TokenRow(S("b"), S("6"), "app1", Far),
                 TokenRow(S("d"), S("9"), "app1", Far),
                 TokenRow(S("e"), S("0"), "app1", Far),
                 TokenRow(S("x"), S("8"), "app1", StartTime)},
     users  |-> {UserRow(8, "u8", 4, 0), UserRow(6, "u6", 10, StartTime)},
     groups |-> {GroupRow(4, TRUE, {<<"user_ban", "1">>, <<"ban_visit", "0">>}),
                 GroupRow(10, TRUE, {})}] }

-----------------------------------------------------------------------------
(* TTL caches: TypedCache (lib/cache.ts) and NodeCache (vendor/node-cache.ts) *)

CacheHit(cache, k) == \E e \in cache : e.key = k /\ now < e.expireAt
CacheValue(cache, k) == (CHOOSE e \in cache : e.key = k /\ now < e.expireAt).value
\* a set that leaves the earlier entry of the key in place
CacheSet_keep(cache, k, v, ttl) ==
  cache \cup {[key |-> k, value |-> v, expireAt |-> now + ttl]}

CacheSet(cache, k, v, ttl) ==
  {e \in cache : e.key # k} \cup {[key |-> k, value |-> v, expireAt |-> now + ttl]}
Expire(cache, t) == {e \in cache : t < e.expireAt}

-----------------------------------------------------------------------------
(* lib/orm/index.ts *)

NoUser == [id |-> 0, username |-> "", groupID |-> 0, regTime |-> 0]

fetchUser(userID) ==
  IF userID = 0
  THEN [kind |-> "Error", user |-> NoUser]
  ELSE IF \E row \in userStore : row.id = userID
  THEN LET user == CHOOSE row \in userStore : row.id = userID
       IN [kind |-> "ok",
           user |-> [id |-> user.id, username |-> user.username,
                     groupID |-> user.groupid, regTime |-> user.regdate]]
  ELSE [kind |-> "null", user |-> NoUser]

\* the null of fetchUser handed on instead of raised
fetchUserX_pass(id) == fetchUser(id)

fetchUserX(id) ==
  LET u == fetchUser(id)
  IN IF u.kind = "null" THEN [kind |-> "UnexpectedNotFound", user |-> NoUser] ELSE u

\* Object.freeze({ ...defaultPermission }): a frozen copy of the current content
DefaultCopy == PermObj(defaultPermission.keys, defaultPermission.on, TRUE, FALSE)

\* the module-level default handed out itself, neither copied nor frozen
fetchPermission_shared(userGroup) ==
  IF ~ \E row \in groupStore : row.id = userGroup
  THEN defaultPermission
  ELSE LET permission == CHOOSE row \in groupStore : row.id = userGroup
       IN IF ~ permission.hasPerm
          THEN defaultPermission
          ELSE PermObj({e[1] : e \in permission.entries},
                       {e[1] : e \in {x \in permission.entries : x[2] = "1"}},
                       TRUE, FALSE)

fetchPermission(userGroup) ==
  IF ~ \E row \in groupStore : row.id = userGroup
  THEN DefaultCopy
  ELSE LET permission == CHOOSE row \in groupStore : row.id = userGroup
       IN IF ~ permission.hasPerm
          THEN DefaultCopy
          ELSE PermObj({e[1] : e \in permission.entries},
                       {e[1] : e \in {x \in permission.entries : x[2] = "1"}},
                       TRUE, FALSE)

-----------------------------------------------------------------------------
(* lib/auth/index.ts *)

\* the anonymous context given the group of an ordinary member
emptyAuth_normal ==
  [userID |-> 0, login |-> FALSE, permission |-> EmptyPermission,
   allowNsfw |-> FALSE, regTime |-> 0, groupID |-> 10]

emptyAuth ==
  [userID |-> 0, login |-> FALSE, permission |-> EmptyPermission,
   allowNsfw |-> FALSE, regTime |-> 0, groupID |-> 0]

\* what a call hands back: its outcome ("return" or the error thrown), the
\* context returned, the user record the context was built from, the caches
\* after the call and the caches and tables the call used
Res(outcome, auth, user, tc, uc, pc, touched) ==
  [outcome |-> outcome, auth |-> auth, user |-> user,
   tc |-> tc, uc |-> uc, pc |-> pc, touched |-> touched]

Throw(kind, touched) ==
  Res(kind, emptyAuth, NoUser, tokenAuthCache, userCache, permissionCache, touched)

\* a cached record answered with the default in its place
getPermission_hitDefault(userGroup, pc) ==
  IF userGroup = 0
  THEN [p |-> PermObj({}, {}, TRUE, FALSE), pc |-> pc, touched |-> {}]
  ELSE IF CacheHit(pc, userGroup)
  THEN [p |-> DefaultCopy, pc |-> pc, touched |-> {"permissionCache.get"}]
  ELSE LET p == fetchPermission(userGroup)
       IN [p |-> p, pc |-> CacheSet(pc, userGroup, p, PermissionTTL),
           touched |-> {"permissionCache.get", "chiiUsergroup", "permissionCache.set"}]

getPermission(userGroup, pc) ==
  IF userGroup = 0
  THEN [p |-> PermObj({}, {}, TRUE, FALSE), pc |-> pc, touched |-> {}]
  ELSE IF CacheHit(pc, userGroup)
  THEN [p |-> CacheValue(pc, userGroup), pc |-> pc, touched |-> {"permissionCache.get"}]
  ELSE LET p == fetchPermission(userGroup)
       IN [p |-> p, pc |-> CacheSet(pc, userGroup, p, PermissionTTL),
           touched |-> {"permissionCache.get", "chiiUsergroup", "permissionCache.set"}]

\* the age gate with > for >=
userToAuth_gt(user, pc) ==
  LET g == getPermission(user.groupID, pc)
      perms == g.p
  IN [auth |-> [userID |-> user.id, login |-> TRUE, permission |-> perms,
                allowNsfw |-> /\ user.id \notin nsfwRestrictedUIDs
                              /\ ~ Has(perms, "ban_visit")
                              /\ ~ Has(perms, "user_ban")
                              /\ now - user.regTime > NsfwAge,
                regTime |-> user.regTime, groupID |-> user.groupID],
      pc |-> g.pc, touched |-> g.touched]

userToAuth(user, pc) ==
  LET g == getPermission(user.groupID, pc)
      perms == g.p
  IN [auth |-> [userID |-> user.id, login |-> TRUE, permission |-> perms,
                allowNsfw |-> /\ user.id \notin nsfwRestrictedUIDs
                              /\ ~ Has(perms, "ban_visit")
                              /\ ~ Has(perms, "user_ban")
                              /\ now - user.regTime >= NsfwAge,
                regTime |-> user.regTime, groupID |-> user.groupID],
      pc |-> g.pc, touched |-> g.touched]

\* the comparison of expired_at turned around (op.lt for op.gt)
findToken_lt(accessToken) ==
  {row \in tokenStore : row.accessToken = accessToken /\ row.expiredAt < now}

\* access_token = ? collate utf8mb4_bin and expired_at > now
findToken(accessToken) ==
  {row \in tokenStore : row.accessToken = accessToken /\ row.expiredAt > now}

\* a token row without user id reported as an invalid token
byToken_invalid(accessToken) ==
  IF CacheHit(tokenAuthCache, accessToken)
  THEN LET cached == CacheValue(tokenAuthCache, accessToken)
           a == userToAuth(cached, permissionCache)
       IN Res("return", a.auth, cached, tokenAuthCache, userCache, a.pc,
              {"tokenAuthCache.get"} \cup a.touched)
  ELSE IF findToken(accessToken) = {}
  THEN Throw("TokenInvalid", {"tokenAuthCache.get", "chiiAccessToken"})
  ELSE LET token == CHOOSE row \in findToken(accessToken) : TRUE
       IN IF token.userID = <<>>
          THEN Throw("TokenInvalid", {"tokenAuthCache.get", "chiiAccessToken"})
          ELSE LET u == fetchUserX(intval(token.userID))
               IN IF u.kind = "Error"
                  THEN Throw("Error", {"tokenAuthCache.get", "chiiAccessToken"})
                  ELSE IF u.kind # "ok"
                  THEN Throw(u.kind, {"tokenAuthCache.get", "chiiAccessToken", "UserRepo"})
                  ELSE LET a == userToAuth(u.user, permissionCache)
                       IN Res("return", a.auth, u.user,
                              CacheSet(tokenAuthCache, accessToken, u.user, TokenTTL),
                              userCache, a.pc,
                              {"tokenAuthCache.get", "chiiAccessToken", "UserRepo",
                               "tokenAuthCache.set"} \cup a.touched)

byToken(accessToken) ==
  IF CacheHit(tokenAuthCache, accessToken)
  THEN LET cached == CacheValue(tokenAuthCache, accessToken)
           a == userToAuth(cached, permissionCache)
       IN Res("return", a.auth, cached, tokenAuthCache, userCache, a.pc,
              {"tokenAuthCache.get"} \cup a.touched)
  ELSE IF findToken(accessToken) = {}
  THEN Throw("TokenInvalid", {"tokenAuthCache.get", "chiiAccessToken"})
  ELSE LET token == CHOOSE row \in findToken(accessToken) : TRUE
       IN IF token.userID = <<>>
          THEN Throw("Error", {"tokenAuthCache.get", "chiiAccessToken"})
          ELSE LET u == fetchUserX(intval(token.userID))
               IN IF u.kind = "Error"
                  THEN Throw("Error", {"tokenAuthCache.get", "chiiAccessToken"})
                  ELSE IF u.kind # "ok"
                  THEN Throw(u.kind, {"tokenAuthCache.get", "chiiAccessToken", "UserRepo"})
                  ELSE LET a == userToAuth(u.user, permissionCache)
                       IN Res("return", a.auth, u.user,
                              CacheSet(tokenAuthCache, accessToken, u.user, TokenTTL),
                              userCache, a.pc,
                              {"tokenAuthCache.get", "chiiAccessToken", "UserRepo",
                               "tokenAuthCache.set"} \cup a.touched)

\* a hit written back to the user cache with a fresh TTL
byUserID_refresh(userID) ==
  IF CacheHit(userCache, userID)
  THEN LET cached == CacheValue(userCache, userID)
           a == userToAuth(cached, permissionCache)
       IN Res("return", a.auth, cached, tokenAuthCache,
              CacheSet(userCache, userID, cached, UserTTL), a.pc,
              {"userCache.get"} \cup a.touched)
  ELSE LET u == fetchUserX(userID)
       IN IF u.kind = "Error"
          THEN Throw("Error", {"userCache.get"})
          ELSE IF u.kind # "ok"
          THEN Throw(u.kind, {"userCache.get", "UserRepo"})
          ELSE LET a == userToAuth(u.user, permissionCache)
               IN Res("return", a.auth, u.user, tokenAuthCache,
                      CacheSet(userCache, userID, u.user, UserTTL), a.pc,
                      {"userCache.get", "UserRepo", "userCache.set"} \cup a.touched)

byUserID(userID) ==
  IF CacheHit(userCache, userID)
  THEN LET cached == CacheValue(userCache, userID)
           a == userToAuth(cached, permissionCache)
       IN Res("return", a.auth, cached, tokenAuthCache, userCache, a.pc,
              {"userCache.get"} \cup a.touched)
  ELSE LET u == fetchUserX(userID)
       IN IF u.kind = "Error"
          THEN Throw("Error", {"userCache.get"})
          ELSE IF u.kind # "ok"
          THEN Throw(u.kind, {"userCache.get", "UserRepo"})
          ELSE LET a == userToAuth(u.user, permissionCache)
               IN Res("return", a.auth, u.user, tokenAuthCache,
                      CacheSet(userCache, userID, u.user, UserTTL), a.pc,
                      {"userCache.get", "UserRepo", "userCache.set"} \cup a.touched)

\* the header value: undefined, a string, or an array of strings
Key(kind, s, a) == [kind |-> kind, s |-> s, a |-> a]
Undefined == Key("undefined", <<>>, <<>>)
Str(s) == Key("string", s, <<>>)
Arr(a) == Key("array", <<>>, a)

\* the branch for an absent header is missing
Falsy_never(key) == FALSE

\* !key
Falsy(key) == key.kind = "undefined" \/ (key.kind = "string" /\ key.s = <<>>)

byHeader(key) ==
  IF Falsy(key)
  THEN Res("return", emptyAuth, NoUser, tokenAuthCache, userCache, permissionCache, {})
  ELSE IF key.kind = "array"
  THEN Throw("HeaderInvalid", {})
  ELSE IF ~ startsWith(key.s, tokenPrefix)
  THEN Throw("HeaderInvalid", {})
  ELSE LET token == slice(key.s, Len(tokenPrefix))
       IN IF token = <<>>
          THEN Throw("HeaderInvalid", {})
          ELSE byToken(token)

-----------------------------------------------------------------------------
(* The second credential module (unnamed/part_005).  It keeps its own token  *)
(* cache, whose entries hold the user and the client id of the token row, it *)
(* reads the permission of a group with fetchPermission, and its context has *)
(* the field source.                                                         *)

defaultSource == 6

\* vendor getTimelineSourceFromAppID: the source of a known client, or none
getTimelineSourceFromAppID(appID) == IF appID = "app1" THEN {5} ELSE {}

\* lib/user/utils.ts fetchUserX: the slim user of a row
NoSlimUser == [id |-> 0, username |-> "", group |-> 0, joinedAt |-> 0]
fetchSlimUserX(id) ==
  IF \E row \in userStore : row.id = id
  THEN LET user == CHOOSE row \in userStore : row.id = id
       IN [kind |-> "ok",
           user |-> [id |-> user.id, username |-> user.username,
                     group |-> user.groupid, joinedAt |-> user.regdate]]
  ELSE [kind |-> "UnexpectedNotFound", user |-> NoSlimUser]

emptyAuthV3 ==
  [userID |-> 0, login |-> FALSE, permission |-> EmptyPermission,
   allowNsfw |-> FALSE, regTime |-> 0, groupID |-> 0, source |-> defaultSource]

userToAuthV3(user, appID) ==
  LET perms == fetchPermission(user.group)
      source == getTimelineSourceFromAppID(appID)
  IN [userID |-> user.id, login |-> TRUE, permission |-> perms,
      allowNsfw |-> /\ user.id \notin nsfwRestrictedUIDs
                    /\ ~ Has(perms, "ban_visit")
                    /\ ~ Has(perms, "user_ban")
                    /\ now - user.joinedAt >= NsfwAge,
      regTime |-> user.joinedAt, groupID |-> user.group,
      source |-> IF source = {} THEN defaultSource ELSE CHOOSE x \in source : TRUE]

\* what a call of this module hands back: its outcome, the context returned
\* and the token cache after the call
ResV3(outcome, auth, tc) == [outcome |-> outcome, auth |-> auth, tc |-> tc]

byTokenV3(accessToken, tc) ==
  IF CacheHit(tc, accessToken)
  THEN LET cached == CacheValue(tc, accessToken)
       IN ResV3("return", userToAuthV3(cached.user, cached.appID), tc)
  ELSE IF findToken(accessToken) = {}
  THEN ResV3("TokenInvalid", emptyAuthV3, tc)
  ELSE LET token == CHOOSE row \in findToken(accessToken) : TRUE
       IN IF token.userID = <<>>
          THEN ResV3("Error", emptyAuthV3, tc)
          ELSE LET u == fetchSlimUserX(intval(token.userID))
               IN IF u.kind # "ok"
                  THEN ResV3(u.kind, emptyAuthV3, tc)
                  ELSE ResV3("return", userToAuthV3(u.user, token.clientID),
                             CacheSet(tc, accessToken,
                                      [user |-> u.user, appID |-> token.clientID],
                                      TokenTTL))

byHeaderV3(key, tc) ==
  IF Falsy(key)
  THEN ResV3("return", emptyAuthV3, tc)
  ELSE IF key.kind = "array"
  THEN ResV3("HeaderInvalid", emptyAuthV3, tc)
  ELSE IF ~ startsWith(key.s, tokenPrefix)
  THEN ResV3("HeaderInvalid", emptyAuthV3, tc)
  ELSE LET token == slice(key.s, Len(tokenPrefix))
       IN IF token = <<>>
          THEN ResV3("HeaderInvalid", emptyAuthV3, tc)
          ELSE byTokenV3(token, tc)

\* the module before its first call
NoTwin == [tc |-> {}, fresh |-> FALSE, outcome |-> "none", auth |-> emptyAuthV3]

-----------------------------------------------------------------------------
(* Inputs *)

Bearer(t) == Str(tokenPrefix \o t)

\* the tokens presented: those of the token table, a token that differs from a
\* stored one only in case, and one the table does not hold
Tokens == {row.accessToken : row \in tokenStore} \cup {S("A"), S("q")}

Headers ==
  {Undefined, Str(<<>>), Str(tokenPrefix)}
  \cup {Bearer(t) : t \in Tokens}
  \cup {Str(<<"B", "a", "s", "i", "c", " ", "x", "y", "z">>),
        Str(<<"b", "e", "a", "r", "e", "r", " ", "a">>),
        Str(<<"B", "e", "a", "r", "e", "r">>),
        Str(<<" ", "B", "e", "a", "r", "e", "r", " ", "a">>)}
  \cup {Arr(<<>>), Arr(<<tokenPrefix \o S("a")>>),
        Arr(<<tokenPrefix \o S("a"), tokenPrefix \o S("b")>>)}

UserIDs == {row.id : row \in userStore} \cup {0, 9}

-----------------------------------------------------------------------------
(* The state machine *)

NoCall ==
  [op |-> "none", key |-> Undefined, token |-> <<>>, uid |-> 0,
   outcome |-> "none", auth |-> emptyAuth, user |-> NoUser, touched |-> {}]

\* no route handler runs: its tables are empty and stay so
NoResponse == [op |-> "none", status |-> "none"]
NoSite ==
  /\ subjects = {}
  /\ interests = {}
  /\ topics = {}
  /\ posts = {}
  /\ timeline = {}
  /\ notifications = {}
  /\ pending = {}
  /\ resp = NoResponse
  /\ writes = 0
  /\ twin = NoTwin
  /\ sessions = {}
  /\ limiter = {}

\* no table has been written from outside
NoChange == [at |-> 0, table |-> "none"]

\* no call has been recorded for a comparison with a later one
NoFirst == [at |-> 0, call |-> NoCall]

Init ==
  /\ now = StartTime
  /\ ticks = 0
  /\ \E w \in Worlds :
       /\ tokenStore = w.tokens
       /\ userStore = w.users
       /\ groupStore = w.groups
  /\ tokenAuthCache = {}
  /\ userCache = {}
  /\ permissionCache = {}
  /\ defaultPermission = PermObj({"ban_post", "ban_visit"}, {"ban_post", "ban_visit"},
                                 FALSE, TRUE)
  /\ last = NoCall
  /\ inflight = {}
  /\ change = NoChange
  /\ first = NoFirst
  /\ NoSite

\* a call completes at the instant `now`: its record replaces `last`, the
\* caches become those the call left
Finish(op, key, token, uid, r) ==
  /\ last' = [op |-> op, key |-> key, token |-> token, uid |-> uid,
              outcome |-> r.outcome, auth |-> r.auth, user |-> r.user,
              touched |-> r.touched]
  /\ tokenAuthCache' = r.tc
  /\ userCache' = r.uc
  /\ permissionCache' = r.pc
  /\ UNCHANGED <<now, ticks, tokenStore, userStore, groupStore, defaultPermission>>
  /\ UNCHANGED ext

ByHeader ==
  \E key \in Headers :
    /\ key \in Headers
    /\ Finish("byHeader", key, <<>>, 0, byHeader(key))

ByToken ==
  \E t \in Tokens :
    /\ t \in Tokens
    /\ Finish("byToken", Undefined, t, 0, byToken(t))

ByUserID ==
  \E id \in UserIDs :
    /\ id \in UserIDs
    /\ Finish("byUserID", Undefined, <<>>, id, byUserID(id))

\* the clock advances; entries past their TTL are gone from the caches, and
\* the call recorded in `last` is no longer the latest event
Tick ==
  \E d \in Steps :
    /\ ticks < MaxTicks
    /\ now' = now + d
    /\ ticks' = ticks + 1
    /\ tokenAuthCache' = Expire(tokenAuthCache, now + d)
    /\ userCache' = Expire(userCache, now + d)
    /\ permissionCache' = Expire(permissionCache, now + d)
    /\ last' = NoCall
    /\ UNCHANGED <<tokenStore, userStore, groupStore, defaultPermission>>
    /\ UNCHANGED ext

\* the caller assigns to a flag of the permission record it was handed: a
\* frozen object rejects the assignment (TypeError in module code) and an
\* unfrozen one takes it; the module-level default changes only if the record
\* is that very object and is not frozen
CallerWrite ==
  \E f \in Flags, v \in BOOLEAN :
    /\ last.outcome = "return"
    /\ LET p == last.auth.permission
       IN defaultPermission' =
            IF ~ p.frozen /\ p.shared
            THEN [defaultPermission EXCEPT
                    !.keys = @ \cup {f},
                    !.on = IF v THEN @ \cup {f} ELSE @ \ {f}]
            ELSE defaultPermission
    /\ UNCHANGED <<now, ticks, tokenStore, userStore, groupStore,
                   tokenAuthCache, userCache, permissionCache, last>>
    /\ UNCHANGED ext

Next == ByHeader \/ ByToken \/ ByUserID \/ Tick \/ CallerWrite

Spec == Init /\ [][Next]_vars

-----------------------------------------------------------------------------
(* The same module beside events it does not control: a table written by    *)
(* another part of the system, a call suspended between its awaits while    *)
(* other calls run, and a cache backend that cannot be reached.             *)

\* one user with one token that expires a day after the process starts, the
\* user's group and a second group
ExtTokens == {TokenRow(S("a"), S("1"), "app1", StartTime + TokenTTL)}
ExtUsers == {UserRow(1, "u1", 10, 0)}
ExtGroups == {GroupRow(10, TRUE, NormalPerm),
              GroupRow(5, TRUE, {<<"ban_post", "1">>, <<"ban_visit", "1">>})}

\* the clock advances by one second or to one second before a TTL ends
ExtSteps == {1, PermissionTTL - 1, UserTTL - 1, TokenTTL - 1}

\* the tables after a write from outside: the user moved to the other group,
\* the group's perm column replaced
MovedUsers == {UserRow(1, "u1", 5, 0)}
RewrittenGroups == {GroupRow(10, TRUE, {<<"ban_post", "1">>}),
                    GroupRow(5, TRUE, {<<"ban_post", "1">>, <<"ban_visit", "1">>})}

\* the cache backend: a get or a set that raises rejects the await
byTokenFaulty(accessToken, getFails, setFails) ==
  IF getFails
  THEN Throw("CacheError", {"tokenAuthCache.get"})
  ELSE LET r == byToken(accessToken)
       IN IF setFails /\ "tokenAuthCache.set" \in r.touched
          THEN Throw("CacheError", r.touched)
          ELSE r

byUserIDFaulty(userID, getFails, setFails) ==
  IF getFails
  THEN Throw("CacheError", {"userCache.get"})
  ELSE LET r == byUserID(userID)
       IN IF setFails /\ "userCache.set" \in r.touched
          THEN Throw("CacheError", r.touched)
          ELSE r

InitExt ==
  /\ now = StartTime
  /\ ticks = 0
  /\ tokenStore = ExtTokens
  /\ userStore = ExtUsers
  /\ groupStore = ExtGroups
  /\ tokenAuthCache = {}
  /\ userCache = {}
  /\ permissionCache = {}
  /\ defaultPermission = PermObj({"ban_post", "ban_visit"}, {"ban_post", "ban_visit"},
                                 FALSE, TRUE)
  /\ last = NoCall
  /\ inflight = {}
  /\ change = NoChange
  /\ first = NoFirst
  /\ NoSite

\* a call completes: its record replaces `last`, the caches become those it left
Complete(op, key, token, uid, r) ==
  /\ last' = [op |-> op, key |-> key, token |-> token, uid |-> uid,
              outcome |-> r.outcome, auth |-> r.auth, user |-> r.user,
              touched |-> r.touched]
  /\ tokenAuthCache' = r.tc
  /\ userCache' = r.uc
  /\ permissionCache' = r.pc
  /\ UNCHANGED <<now, ticks, tokenStore, userStore, groupStore, defaultPermission>>
  /\ UNCHANGED site

\* byHeader with the user's token, run without suspension; the first such
\* call that returns is the one later calls are compared with
HeaderCall ==
  \E key \in {Bearer(S("a"))} :
    /\ Complete("byHeader", key, <<>>, 0, byHeader(key))
    /\ first' = IF first.at = 0 /\ byHeader(key).outcome = "return"
                THEN [at |-> now, call |-> last']
                ELSE first
    /\ UNCHANGED <<inflight, change>>

\* byUserID up to its second await: a cache hit completes the call, a miss
\* reads the user table and leaves the call suspended with the row it read
UserIDRead ==
  \E userID \in {1} :
    /\ inflight = {}
    /\ IF CacheHit(userCache, userID) \/ fetchUserX(userID).kind # "ok"
       THEN /\ Complete("byUserID", Undefined, <<>>, userID, byUserID(userID))
            /\ UNCHANGED inflight
       ELSE /\ inflight' = {[userID |-> userID, u |-> fetchUserX(userID).user]}
            /\ UNCHANGED <<now, ticks, tokenStore, userStore, groupStore,
                           tokenAuthCache, userCache, permissionCache,
                           defaultPermission, last, site>>
    /\ UNCHANGED <<change, first>>

\* the rest of a suspended byUserID: userCache.set with the row read before
\* the suspension, then userToAuth
UserIDWrite ==
  \E call \in inflight :
    /\ LET a == userToAuth(call.u, permissionCache)
       IN Complete("byUserID", Undefined, <<>>, call.userID,
                   Res("return", a.auth, call.u, tokenAuthCache,
                       CacheSet(userCache, call.userID, call.u, UserTTL), a.pc,
                       {"userCache.get", "UserRepo", "userCache.set"} \cup a.touched))
    /\ inflight' = inflight \ {call}
    /\ UNCHANGED <<change, first>>

\* byToken and byUserID while the cache backend fails
TokenCacheDown ==
  \E getFails \in BOOLEAN, setFails \in BOOLEAN :
    /\ getFails \/ setFails
    /\ Complete("byToken", Undefined, S("a"), 0,
                byTokenFaulty(S("a"), getFails, setFails))
    /\ UNCHANGED <<inflight, change, first>>

UserCacheDown ==
  \E getFails \in BOOLEAN, setFails \in BOOLEAN :
    /\ getFails \/ setFails
    /\ Complete("byUserID", Undefined, <<>>, 1, byUserIDFaulty(1, getFails, setFails))
    /\ UNCHANGED <<inflight, change, first>>

\* another part of the system writes the user's row, once
ChangeUser ==
  /\ change = NoChange
  /\ userStore' = MovedUsers
  /\ change' = [at |-> now, table |-> "chii_members"]
  /\ UNCHANGED <<now, ticks, tokenStore, groupStore, tokenAuthCache, userCache,
                 permissionCache, defaultPermission, last, inflight, first, site>>

\* another part of the system writes the group's row, once
ChangeGroup ==
  /\ change = NoChange
  /\ groupStore' = RewrittenGroups
  /\ change' = [at |-> now, table |-> "chii_usergroup"]
  /\ UNCHANGED <<now, ticks, tokenStore, userStore, tokenAuthCache, userCache,
                 permissionCache, defaultPermission, last, inflight, first, site>>

ExtTick ==
  \E d \in ExtSteps :
    /\ ticks < MaxTicks
    /\ now' = now + d
    /\ ticks' = ticks + 1
    /\ tokenAuthCache' = Expire(tokenAuthCache, now + d)
    /\ userCache' = Expire(userCache, now + d)
    /\ permissionCache' = Expire(permissionCache, now + d)
    /\ last' = NoCall
    /\ UNCHANGED <<tokenStore, userStore, groupStore, defaultPermission,
                   inflight, change, first, site>>

NextExt ==
  \/ HeaderCall \/ UserIDRead \/ UserIDWrite \/ TokenCacheDown \/ UserCacheDown
  \/ ChangeUser \/ ChangeGroup \/ ExtTick

SpecExt == InitExt /\ [][NextExt]_vars

-----------------------------------------------------------------------------
(* Properties.  They read the header and the token of the latest call with   *)
(* their own definitions of "begins with Bearer " and of the token part.     *)

HasBearerPrefix(s) ==
  /\ Len(s) >= 7
  /\ <<s[1], s[2], s[3], s[4], s[5], s[6], s[7]>> = <<"B", "e", "a", "r", "e", "r", " ">>

TokenPart(s) == [i \in 1 .. (Len(s) - 7) |-> s[i + 7]]

\* the latest call presented a token: byToken, or byHeader with "Bearer <token>"
BearerCall ==
  /\ last.op = "byHeader"
  /\ last.key.kind = "string"
  /\ HasBearerPrefix(last.key.s)
  /\ Len(last.key.s) > 7

TokenCall == last.op = "byToken" \/ BearerCall

LastToken == IF last.op = "byToken" THEN last.token ELSE TokenPart(last.key.s)

\* the token table holds a row for t that has not expired at the time of the call
ValidRows(t) == {row \in tokenStore : row.accessToken = t /\ row.expiredAt > now}

\* the row names user id n in decimal
NamesUser(row, n) ==
  /\ row.userID # <<>>
  /\ intval(row.userID) = n

\* C1: for every token t that the token table maps to an existing user u with
\* expiredAt later than the current time, byHeader("Bearer " + t) returns a
\* context with userID = u.id and login = true, on a token-cache miss and on a
\* token-cache hit alike.
C1_ValidTokenLogsIn ==
  BearerCall =>
    \A row \in ValidRows(LastToken) : \A u \in userStore :
      NamesUser(row, u.id) =>
        /\ last.outcome = "return"
        /\ last.auth.login = TRUE
        /\ last.auth.userID = u.id

\* C1 witness: a valid token answered from the token cache (the table was not read)
C1_Witness ==
  /\ BearerCall
  /\ \E row \in ValidRows(LastToken) : \E u \in userStore :
       NamesUser(row, u.id) /\ last.auth.userID = u.id /\ last.auth.login
  /\ last.outcome = "return"
  /\ "chiiAccessToken" \notin last.touched
  /\ "tokenAuthCache.get" \in last.touched

\* C2: a call made with a token whose expiredAt is not later than the current
\* time, or that the token table does not hold, fails with TokenInvalid, also
\* when the token was resolved earlier while it was valid.
C2_ExpiredTokenRejected ==
  (TokenCall /\ ValidRows(LastToken) = {}) => last.outcome = "TokenInvalid"

\* C2's failing run ends here: the token cache answers for a token whose row
\* has expired
C2_StaleHit ==
  /\ TokenCall
  /\ ValidRows(LastToken) = {}
  /\ last.outcome = "return"
  /\ last.auth.login

Caches == <<tokenAuthCache, userCache, permissionCache>>

\* C3: byHeader with an absent header returns exactly the anonymous context
\* (userID 0, login false, allowNsfw false, empty permission, regTime 0,
\* groupID 0), raises no error and leaves the caches and the stores alone.
C3_AbsentHeaderAnonymous ==
  [][ (last'.op = "byHeader" /\ last'.key.kind = "undefined") =>
        /\ last'.outcome = "return"
        /\ last'.auth.userID = 0
        /\ last'.auth.login = FALSE
        /\ last'.auth.allowNsfw = FALSE
        /\ last'.auth.permission.keys = {}
        /\ last'.auth.regTime = 0
        /\ last'.auth.groupID = 0
        /\ last'.touched = {}
        /\ UNCHANGED Caches
        /\ UNCHANGED <<tokenStore, userStore, groupStore>> ]_vars

\* C3 witness: the absent header answered while the caches hold entries
C3_Witness ==
  /\ last.op = "byHeader"
  /\ last.key.kind = "undefined"
  /\ last.outcome = "return"
  /\ last.auth.login = FALSE
  /\ tokenAuthCache # {}
  /\ permissionCache # {}

\* C4 as claimed: every header given as one string that does not begin with
\* "Bearer ", the empty string included, fails with HeaderInvalid.
C4_Original ==
  (last.op = "byHeader" /\ last.key.kind = "string" /\ ~ HasBearerPrefix(last.key.s))
    => last.outcome = "HeaderInvalid"

\* C4 amended: every header given as one non-empty string that does not begin
\* with "Bearer " fails with HeaderInvalid and no context is returned; the
\* empty string is answered like an absent header, with the anonymous context.
C4_NonEmptyNonBearerInvalid ==
  (last.op = "byHeader" /\ last.key.kind = "string" /\ ~ HasBearerPrefix(last.key.s))
    => IF last.key.s = <<>>
       THEN last.outcome = "return" /\ last.auth.login = FALSE /\ last.auth.userID = 0
       ELSE last.outcome = "HeaderInvalid"

\* C4 witness: a header that holds "Bearer " but does not begin with it
C4_Witness ==
  /\ last.op = "byHeader"
  /\ last.key.kind = "string"
  /\ last.key.s = <<" ", "B", "e", "a", "r", "e", "r", " ", "a">>
  /\ last.outcome = "HeaderInvalid"

\* C5: a header given as an array of values, of any length, and the header
\* that is exactly "Bearer " fail with HeaderInvalid before any token-cache or
\* token-table lookup: no cache entry is read or written.
C5_ArrayOrEmptyTokenInvalid ==
  [][ (last'.op = "byHeader" /\
         (last'.key.kind = "array" \/
            (last'.key.kind = "string" /\
               last'.key.s = <<"B", "e", "a", "r", "e", "r", " ">>))) =>
        /\ last'.outcome = "HeaderInvalid"
        /\ last'.touched = {}
        /\ UNCHANGED Caches ]_vars

\* C5 witness: the empty array is rejected while the token cache holds entries
C5_Witness ==
  /\ last.op = "byHeader"
  /\ last.key.kind = "array"
  /\ last.key.a = <<>>
  /\ last.outcome = "HeaderInvalid"
  /\ tokenAuthCache # {}

\* the minimal projection of a row of the user table
Projection(row) ==
  [id |-> row.id, username |-> row.username, groupID |-> row.groupid,
   regTime |-> row.regdate]

\* C6: every context returned satisfies: login = false implies userID = 0,
\* empty permission, regTime = 0, groupID = 0 and allowNsfw = false; login =
\* true implies userID is the id of the user record the call resolved.
C6_ContextInvariant ==
  last.outcome = "return" =>
    /\ ~ last.auth.login =>
         /\ last.auth.userID = 0
         /\ last.auth.permission.keys = {}
         /\ last.auth.regTime = 0
         /\ last.auth.groupID = 0
         /\ last.auth.allowNsfw = FALSE
    /\ last.auth.login =>
         /\ last.auth.userID = last.user.id
         /\ \E row \in userStore : Projection(row) = last.user
         /\ last.op = "byUserID" => last.auth.userID = last.uid
         /\ TokenCall =>
              \E row \in tokenStore :
                row.accessToken = LastToken /\ NamesUser(row, last.auth.userID)

\* C6 witness: an anonymous context and, in another run, a login context exist;
\* this one is the login context of byUserID answered from the user cache
C6_Witness ==
  /\ last.op = "byUserID"
  /\ last.outcome = "return"
  /\ last.auth.login
  /\ last.auth.userID = last.uid
  /\ "UserRepo" \notin last.touched

\* C7: the context's allowNsfw equals: userID not in the deny-list AND NOT
\* permission.ban_visit AND NOT permission.user_ban AND now - regTime >=
\* 7776000; the age gate is false at 7775999 and true at 7776000.
C7_AllowNsfwGate ==
  (last.outcome = "return" /\ last.auth.login) =>
    last.auth.allowNsfw =
      (/\ last.auth.userID # 873244
       /\ "ban_visit" \notin last.auth.permission.on
       /\ "user_ban" \notin last.auth.permission.on
       /\ now - last.auth.regTime >= 7776000)

\* C7 witness: an account resolved at the threshold second is allowed
C7_Witness ==
  /\ last.outcome = "return"
  /\ last.auth.login
  /\ now - last.auth.regTime = 7776000
  /\ last.auth.allowNsfw

\* the user-group table has no row for group g
NoRow(g) == ~ \E row \in groupStore : row.id = g

\* C8: for every logged-in user whose group, 0 included, has no row in the
\* user-group table, the context carries ban_post = true and ban_visit =
\* true, and therefore allowNsfw = false.
C8_RowlessGroupFailsClosed ==
  (last.outcome = "return" /\ last.auth.login /\ NoRow(last.auth.groupID)) =>
    /\ "ban_post" \in last.auth.permission.on
    /\ "ban_visit" \in last.auth.permission.on
    /\ last.auth.allowNsfw = FALSE

\* C8's failing run ends here: a user of group 0 holds an empty permission
\* record and may see NSFW material
C8_GroupZeroPermissive ==
  /\ last.outcome = "return"
  /\ last.auth.login
  /\ last.auth.groupID = 0
  /\ NoRow(0)
  /\ last.auth.permission.keys = {}
  /\ last.auth.allowNsfw

\* the group has no row, or a row whose perm column is empty
NoBlob(g) == \A row \in groupStore : row.id = g => ~ row.hasPerm

ExactDefault ==
  [keys |-> {"ban_post", "ban_visit"}, on |-> {"ban_post", "ban_visit"},
   frozen |-> TRUE, shared |-> FALSE]

\* C9: fetchPermission of a group with no row, or with a row whose perm column
\* is empty, returns exactly {ban_post: true, ban_visit: true} as a fresh
\* frozen copy, and nothing a caller does to a record it was handed changes
\* the module-level default.
C9_DefaultPermissionFallback ==
  /\ defaultPermission.keys = {"ban_post", "ban_visit"}
  /\ defaultPermission.on = {"ban_post", "ban_visit"}
  /\ \A g \in 0 .. 11 : NoBlob(g) => fetchPermission(g) = ExactDefault
  /\ (last.outcome = "return" /\ "chiiUsergroup" \in last.touched
        /\ NoBlob(last.auth.groupID)) =>
       last.auth.permission = ExactDefault

\* C9 witness: a context built by reading a row whose perm column is empty
C9_Witness ==
  /\ last.outcome = "return"
  /\ "chiiUsergroup" \in last.touched
  /\ \E row \in groupStore : row.id = last.auth.groupID /\ ~ row.hasPerm
  /\ last.auth.permission = ExactDefault

\* the latest call read a token row that is not expired and has no user id
RowWithoutUser ==
  /\ TokenCall
  /\ "chiiAccessToken" \in last.touched
  /\ \E row \in ValidRows(LastToken) : row.userID = <<>>

-----------------------------------------------------------------------------
(* Missing users *)

HasUserRow(id) == \E row \in userStore : row.id = id
RowOf(id) == CHOOSE row \in userStore : row.id = id

\* the latest call read the user table for the id `id`: byUserID(id), or
\* byToken with a token whose row names the id
LookedUp(id) ==
  /\ "UserRepo" \in last.touched \/ last.outcome = "Error"
  /\ \/ last.op = "byUserID" /\ last.uid = id
     \/ /\ TokenCall
        /\ "chiiAccessToken" \in last.touched
        /\ \E row \in ValidRows(LastToken) : NamesUser(row, id)

\* C11 as claimed: for every numeric id with no row in the user store
\* fetchUser returns null without raising and fetchUserX, hence byUserID and
\* byToken for a token naming the id, fails with UnexpectedNotFound.
C11_Original ==
  /\ \A id \in UserIDs :
       ~ HasUserRow(id) =>
         /\ fetchUser(id) = [kind |-> "null", user |-> NoUser]
         /\ fetchUserX(id).kind = "UnexpectedNotFound"
  /\ \A id \in UserIDs :
       (~ HasUserRow(id) /\ LookedUp(id)) => last.outcome = "UnexpectedNotFound"

\* C11 amended: for every non-zero id with no row fetchUser returns null
\* without raising and fetchUserX, byUserID and byToken for a token naming the
\* id fail with UnexpectedNotFound; for the id 0 fetchUser itself raises a
\* plain Error before any lookup and so do fetchUserX, byUserID and byToken;
\* for every id with a row fetchUser and fetchUserX return the minimal record
\* of that row and the context is built from it.
C11_MissingUser ==
  /\ \A id \in UserIDs :
       /\ (id # 0 /\ ~ HasUserRow(id)) =>
            /\ fetchUser(id) = [kind |-> "null", user |-> NoUser]
            /\ fetchUserX(id).kind = "UnexpectedNotFound"
            /\ LookedUp(id) => last.outcome = "UnexpectedNotFound"
       /\ id = 0 =>
            /\ fetchUser(id).kind = "Error"
            /\ fetchUserX(id).kind = "Error"
            /\ LookedUp(id) => last.outcome = "Error" /\ "UserRepo" \notin last.touched
       /\ HasUserRow(id) =>
            /\ fetchUser(id) = [kind |-> "ok", user |-> Projection(RowOf(id))]
            /\ fetchUserX(id) = [kind |-> "ok", user |-> Projection(RowOf(id))]
            /\ LookedUp(id) =>
                 /\ last.outcome = "return"
                 /\ last.user = Projection(RowOf(id))
  /\ last.outcome \in {"UnexpectedNotFound", "Error"} =>
       /\ last.auth = emptyAuth
       /\ TokenCall => \A e \in tokenAuthCache : e.key # LastToken
       /\ last.op = "byUserID" => \A e \in userCache : e.key # last.uid

\* C11 witness: byToken with a token whose row names an id that has no user
\* row has failed with UnexpectedNotFound after reading the user table
C11_Witness ==
  /\ TokenCall
  /\ \E row \in ValidRows(LastToken) :
       /\ row.userID # <<>>
       /\ intval(row.userID) # 0
       /\ ~ HasUserRow(intval(row.userID))
  /\ "UserRepo" \in last.touched
  /\ last.outcome = "UnexpectedNotFound"

-----------------------------------------------------------------------------
(* Repeated calls, external writes and cache failures (SpecExt) *)

\* two contexts agree on the fields that do not derive from the clock
SameContext(a, b) ==
  /\ a.userID = b.userID
  /\ a.login = b.login
  /\ a.groupID = b.groupID
  /\ a.regTime = b.regTime
  /\ a.permission = b.permission

\* the latest call is byHeader with the header of the recorded earlier call,
\* made less than the token cache's 24 hours after it
Repeated ==
  /\ first.at # 0
  /\ last.op = "byHeader"
  /\ last.key = first.call.key
  /\ now < first.at + 86400

ServedFromCache ==
  /\ last.outcome = "return"
  /\ last.auth.login
  /\ "UserRepo" \notin last.touched

\* C13: after an external change at time t to a user's record or to a group's
\* permission row, every context resolved at a time >= t + TTL of the cache
\* that fronts the lookup (24 h on the token path, 1 h on the user-id path,
\* 10 min for permissions) reflects the changed data, under any interleaving
\* of requests with the change.
C13_BoundedStaleness ==
  /\ (ServedFromCache /\ TokenCall /\ change.table = "chii_members"
        /\ now >= change.at + 86400) =>
       last.user = Projection(RowOf(last.user.id))
  /\ (ServedFromCache /\ last.op = "byUserID" /\ change.table = "chii_members"
        /\ now >= change.at + 3600) =>
       last.user = Projection(RowOf(last.user.id))
  /\ (last.outcome = "return" /\ last.auth.login /\ change.table = "chii_usergroup"
        /\ now >= change.at + 600) =>
       last.auth.permission = fetchPermission(last.auth.groupID)

\* C13, the case that fails: a byUserID call answered from the user cache an
\* hour or more after the user's row was written hands out the row as it was
\* before the write
C13_StaleAfterTTL ==
  /\ ServedFromCache
  /\ last.op = "byUserID"
  /\ change.table = "chii_members"
  /\ now = change.at + 3600
  /\ last.user # Projection(RowOf(last.user.id))

\* the credential of the latest call is valid: a token with a row that has not
\* expired and names a user who has a row, or the id of a user who has a row
ValidCredential ==
  \/ /\ last.op = "byToken"
     /\ \E row \in ValidRows(last.token) :
          row.userID # <<>> /\ HasUserRow(intval(row.userID))
  \/ /\ last.op = "byUserID"
     /\ HasUserRow(last.uid)

\* C14: if the cache backend fails (get or set raises) during byToken or
\* byUserID the call behaves as on a cache miss and falls back to the
\* authoritative store; a cache failure alone never makes a resolution with
\* a valid credential fail.
C14_CacheFailureIsMiss ==
  ValidCredential => last.outcome = "return"

\* C14, the case that fails: byToken with a valid token ends with the error
\* the cache raised and has not read the token table
C14_CacheFailureFails ==
  /\ last.op = "byToken"
  /\ ValidCredential
  /\ last.outcome = "CacheError"
  /\ "chiiAccessToken" \notin last.touched

-----------------------------------------------------------------------------
(* The writes of the token cache and of the user cache (Spec) *)

\* an entry of the cache holds key k and has not expired
Cached(cache, k) == \E e \in cache : e.key = k /\ now < e.expireAt

\* the cache after one write of value v under key k that lasts ttl seconds
WrittenOnce(cache, k, v, ttl) ==
  {e \in cache : e.key # k} \cup {[key |-> k, value |-> v, expireAt |-> now + ttl]}

\* the users a lookup of token t in the token table leads to: the row has not
\* expired, names a user id and the user table has a row with that id
TokenUsers(t) ==
  {u \in userStore : \E row \in ValidRows(t) : NamesUser(row, u.id)}

\* C21: a call that presents a token leaves the token cache as it was, unless
\* it missed the cache and the token table led to an existing user: then the
\* cache has had one write, of that user under the exact token with a TTL of
\* 86400 seconds.  byUserID leaves the user cache as it was, unless it missed
\* the cache and the user exists: then the cache has had one write of the user
\* under the id with a TTL of 3600 seconds.  No call writes the other cache,
\* so a hit and a failing call write nothing and a hit extends no lifetime.
C21_CacheWriteDiscipline ==
  [][ /\ TokenCall' =>
           /\ userCache' = userCache
           /\ IF ~ Cached(tokenAuthCache, LastToken') /\ TokenUsers(LastToken') # {}
              THEN \E u \in TokenUsers(LastToken') :
                     tokenAuthCache' =
                       WrittenOnce(tokenAuthCache, LastToken', Projection(u), 86400)
              ELSE tokenAuthCache' = tokenAuthCache
      /\ last'.op = "byUserID" =>
           /\ tokenAuthCache' = tokenAuthCache
           /\ IF ~ Cached(userCache, last'.uid)
                   /\ \E u \in userStore : u.id = last'.uid
              THEN \E u \in userStore :
                     /\ u.id = last'.uid
                     /\ userCache' = WrittenOnce(userCache, last'.uid, Projection(u), 3600)
              ELSE userCache' = userCache
      /\ (last'.op = "byHeader" /\ ~ TokenCall') =>
           /\ tokenAuthCache' = tokenAuthCache
           /\ userCache' = userCache
    ]_vars

\* byUserID has been answered from the user cache a second after the call
\* that wrote the entry: the entry still ends an hour after that call
C21_Witness ==
  /\ last.op = "byUserID"
  /\ last.outcome = "return"
  /\ "userCache.set" \notin last.touched
  /\ \E e \in userCache : e.key = last.uid /\ e.expireAt = now + 3600 - 1
  /\ ticks > 0

-----------------------------------------------------------------------------
(* The two credential modules side by side: each header is handed to byHeader *)
(* of lib/auth and to byHeader of the second module, each with its own caches. *)

TwinCall ==
  \E key \in Headers :
    LET r == byHeader(key)
        v == byHeaderV3(key, twin.tc)
    IN /\ last' = [op |-> "byHeader", key |-> key, token |-> <<>>, uid |-> 0,
                   outcome |-> r.outcome, auth |-> r.auth, user |-> r.user,
                   touched |-> r.touched]
       /\ tokenAuthCache' = r.tc
       /\ userCache' = r.uc
       /\ permissionCache' = r.pc
       /\ twin' = [tc |-> v.tc,
                   fresh |-> /\ tokenAuthCache = {}
                             /\ userCache = {}
                             /\ permissionCache = {}
                             /\ twin.tc = {},
                   outcome |-> v.outcome, auth |-> v.auth]
       /\ UNCHANGED <<now, ticks, tokenStore, userStore, groupStore, defaultPermission,
                      inflight, change, first, subjects, interests, topics, posts,
                      timeline, notifications, pending, resp, writes, sessions, limiter>>

\* the clock advances: entries past their TTL are gone from the caches of both
\* modules, and the calls recorded are no longer the latest event
TwinTick ==
  \E d \in Steps :
    /\ ticks < MaxTicks
    /\ now' = now + d
    /\ ticks' = ticks + 1
    /\ tokenAuthCache' = Expire(tokenAuthCache, now + d)
    /\ userCache' = Expire(userCache, now + d)
    /\ permissionCache' = Expire(permissionCache, now + d)
    /\ last' = NoCall
    /\ twin' = [NoTwin EXCEPT !.tc = Expire(twin.tc, now + d)]
    /\ UNCHANGED <<tokenStore, userStore, groupStore, defaultPermission,
                   inflight, change, first, subjects, interests, topics, posts,
                   timeline, notifications, pending, resp, writes, sessions, limiter>>

NextTwin == TwinCall \/ TwinTick

SpecTwin == Init /\ [][NextTwin]_vars

\* C24: for every header and every content of the tables, a call of byHeader
\* of lib/auth and a call of byHeader of the second module, both made with
\* empty caches, have the same outcome: the same error, or contexts equal on
\* userID, login, allowNsfw, permission, regTime and groupID
C24_SameOutcome ==
  (last.op = "byHeader" /\ twin.fresh) =>
    /\ twin.outcome = last.outcome
    /\ last.outcome = "return" =>
         /\ twin.auth.userID = last.auth.userID
         /\ twin.auth.login = last.auth.login
         /\ twin.auth.allowNsfw = last.auth.allowNsfw
         /\ twin.auth.permission.keys = last.auth.permission.keys
         /\ twin.auth.permission.on = last.auth.permission.on
         /\ twin.auth.regTime = last.auth.regTime
         /\ twin.auth.groupID = last.auth.groupID

\* the token of a user of group 0, presented to both modules with empty
\* caches: lib/auth returns an empty permission and allowNsfw = true, the
\* second module the default permission and allowNsfw = false
C24_GroupZeroDiffers ==
  /\ last.op = "byHeader"
  /\ twin.fresh
  /\ last.outcome = "return" /\ twin.outcome = "return"
  /\ last.auth.login /\ twin.auth.login
  /\ last.auth.userID = twin.auth.userID
  /\ last.auth.groupID = 0 /\ twin.auth.groupID = 0
  /\ last.auth.permission.keys = {}
  /\ twin.auth.permission.on = {"ban_post", "ban_visit"}
  /\ last.auth.allowNsfw /\ ~ twin.auth.allowNsfw

-----------------------------------------------------------------------------
(* Concurrent resolutions.  byToken and byUserID are async functions: each   *)
(* await is a point where another request runs.  A request is called (its    *)
(* cache get is issued with the call), then runs its store lookups, its      *)
(* cache set and userToAuth as separate steps; it may be aborted at any      *)
(* await, and the user's row may be rewritten from outside meanwhile.        *)

\* number of requests in one behaviour
MaxRequests == 2

\* the calls made: the user's token, a token the table does not hold, the
\* user's id and an id without a row
RaceCalls ==
  {[op |-> "byToken", token |-> S("a"), uid |-> 0],
   [op |-> "byToken", token |-> S("z"), uid |-> 0],
   [op |-> "byUserID", token |-> <<>>, uid |-> 1],
   [op |-> "byUserID", token |-> <<>>, uid |-> 9]}

\* the step of request r that replaces its record
Advance(r, next) == inflight' = (inflight \ {r}) \cup {next}

\* a request ends with an error
Thrown(r, kind, touched) ==
  [r EXCEPT !.pc = "done", !.outcome = kind, !.touched = r.touched \cup touched]

\* the call and `await cache.get(key)`: a hit goes on to userToAuth with the
\* cached user, a miss to the store
RaceCall ==
  \E c \in RaceCalls :
    /\ Cardinality(inflight) < MaxRequests
    /\ LET hit == IF c.op = "byToken" THEN CacheHit(tokenAuthCache, c.token)
                  ELSE CacheHit(userCache, c.uid)
           cached == IF c.op = "byToken" THEN CacheValue(tokenAuthCache, c.token)
                     ELSE CacheValue(userCache, c.uid)
       IN inflight' = inflight \cup
            {[id |-> Cardinality(inflight) + 1, op |-> c.op, token |-> c.token,
              uid |-> c.uid,
              pc |-> IF hit THEN "auth" ELSE IF c.op = "byToken" THEN "query" ELSE "fetch",
              fetch |-> c.uid,
              user |-> IF hit THEN cached ELSE NoUser,
              touched |-> IF c.op = "byToken" THEN {"tokenAuthCache.get"}
                          ELSE {"userCache.get"},
              outcome |-> "none", auth |-> emptyAuth]}
    /\ UNCHANGED <<now, ticks, tokenStore, userStore, groupStore, tokenAuthCache,
                   userCache, permissionCache, defaultPermission, last, change, first,
                   site>>

\* await db.query.chiiAccessToken.findFirst and the two checks of its result
RaceQuery ==
  \E r \in inflight :
    /\ r.pc = "query"
    /\ IF findToken(r.token) = {}
       THEN Advance(r, Thrown(r, "TokenInvalid", {"chiiAccessToken"}))
       ELSE LET token == CHOOSE row \in findToken(r.token) : TRUE
            IN IF token.userID = <<>>
               THEN Advance(r, Thrown(r, "Error", {"chiiAccessToken"}))
               ELSE Advance(r, [r EXCEPT !.pc = "fetch",
                                         !.fetch = intval(token.userID),
                                         !.touched = @ \cup {"chiiAccessToken"}])
    /\ UNCHANGED <<now, ticks, tokenStore, userStore, groupStore, tokenAuthCache,
                   userCache, permissionCache, defaultPermission, last, change, first,
                   site>>

\* await fetchUserX
RaceFetch ==
  \E r \in inflight :
    /\ r.pc = "fetch"
    /\ LET u == fetchUserX(r.fetch)
       IN IF u.kind = "Error"
          THEN Advance(r, Thrown(r, "Error", {}))
          ELSE IF u.kind # "ok"
          THEN Advance(r, Thrown(r, u.kind, {"UserRepo"}))
          ELSE Advance(r, [r EXCEPT !.pc = "set", !.user = u.user,
                                    !.touched = @ \cup {"UserRepo"}])
    /\ UNCHANGED <<now, ticks, tokenStore, userStore, groupStore, tokenAuthCache,
                   userCache, permissionCache, defaultPermission, last, change, first,
                   site>>

\* await cache.set(key, u, ttl) with the user read at the fetch
RaceSet ==
  \E r \in inflight :
    /\ r.pc = "set"
    /\ IF r.op = "byToken"
       THEN /\ tokenAuthCache' = CacheSet(tokenAuthCache, r.token, r.user, TokenTTL)
            /\ Advance(r, [r EXCEPT !.pc = "auth",
                                    !.touched = @ \cup {"tokenAuthCache.set"}])
            /\ UNCHANGED userCache
       ELSE /\ userCache' = CacheSet(userCache, r.uid, r.user, UserTTL)
            /\ Advance(r, [r EXCEPT !.pc = "auth",
                                    !.touched = @ \cup {"userCache.set"}])
            /\ UNCHANGED tokenAuthCache
    /\ UNCHANGED <<now, ticks, tokenStore, userStore, groupStore, permissionCache,
                   defaultPermission, last, change, first, site>>

\* return await userToAuth(u)
RaceAuth ==
  \E r \in inflight :
    /\ r.pc = "auth"
    /\ LET a == userToAuth(r.user, permissionCache)
       IN /\ Advance(r, [r EXCEPT !.pc = "done", !.outcome = "return",
                                  !.auth = a.auth, !.touched = @ \cup a.touched])
          /\ permissionCache' = a.pc
    /\ UNCHANGED <<now, ticks, tokenStore, userStore, groupStore, tokenAuthCache,
                   userCache, defaultPermission, last, change, first, site>>

\* the request is aborted at an await: none of its later statements runs
RaceAbort ==
  \E r \in inflight :
    /\ r.pc \notin {"done", "aborted"}
    /\ Advance(r, [r EXCEPT !.pc = "aborted"])
    /\ UNCHANGED <<now, ticks, tokenStore, userStore, groupStore, tokenAuthCache,
                   userCache, permissionCache, defaultPermission, last, change, first,
                   site>>

\* a second passes
RaceTick ==
  /\ ticks < MaxTicks
  /\ now' = now + 1
  /\ ticks' = ticks + 1
  /\ tokenAuthCache' = Expire(tokenAuthCache, now + 1)
  /\ userCache' = Expire(userCache, now + 1)
  /\ permissionCache' = Expire(permissionCache, now + 1)
  /\ UNCHANGED <<tokenStore, userStore, groupStore, defaultPermission, last,
                 inflight, change, first, site>>

NextRace ==
  \/ RaceCall \/ RaceQuery \/ RaceFetch \/ RaceSet \/ RaceAuth \/ RaceAbort
  \/ ChangeUser \/ RaceTick

SpecRace == InitExt /\ [][NextRace]_vars

-----------------------------------------------------------------------------
(* Properties of concurrent resolutions (SpecRace) *)

\* the request found no entry in its cache when it was called
MissedCache(r) ==
  \/ r.pc \in {"query", "fetch", "set"}
  \/ r.touched \cap {"chiiAccessToken", "UserRepo"} # {}
  \/ (r.pc = "aborted" /\ r.user = NoUser)

\* two requests that called byToken with the same token, both without an
\* entry in the token cache, and have both ended without being aborted
RacingPair(r1, r2) ==
  /\ r1.id # r2.id
  /\ r1.op = "byToken" /\ r2.op = "byToken"
  /\ r1.token = r2.token
  /\ MissedCache(r1) /\ MissedCache(r2)
  /\ r1.pc = "done" /\ r2.pc = "done"

\* C22: two requests call byToken with the same token, valid and of an
\* existing user, while the token cache has no entry for it, and the tables
\* are not written meanwhile.  However their steps interleave, both have read
\* the token table and the user table, both have written the cache, both have
\* returned a login context of the same user, and the cache then holds one
\* entry for the token, with the value one request alone writes: the
\* projection of the user's row.
C22_DuplicateWork ==
  \A r1 \in inflight : \A r2 \in inflight :
    (RacingPair(r1, r2) /\ TokenUsers(r1.token) # {} /\ change = NoChange) =>
      /\ {"chiiAccessToken", "UserRepo", "tokenAuthCache.set"} \subseteq r1.touched
      /\ {"chiiAccessToken", "UserRepo", "tokenAuthCache.set"} \subseteq r2.touched
      /\ r1.outcome = "return" /\ r2.outcome = "return"
      /\ r1.auth.login /\ r2.auth.login
      /\ r1.auth.userID = r2.auth.userID
      /\ \E u \in TokenUsers(r1.token) :
           /\ r1.auth.userID = u.id
           /\ \E e \in tokenAuthCache :
                /\ {x \in tokenAuthCache : x.key = r1.token} = {e}
                /\ e.value = Projection(u)
                /\ e.expireAt <= now + 86400

\* both requests have ended, the second write a second after the first
C22_Witness ==
  /\ \E r1 \in inflight : \E r2 \in inflight :
       /\ RacingPair(r1, r2)
       /\ r1.outcome = "return" /\ r2.outcome = "return"
       /\ "tokenAuthCache.set" \in r1.touched \cap r2.touched
  /\ change = NoChange
  /\ \E e \in tokenAuthCache : e.key = S("a") /\ e.expireAt = now + 86400
  /\ ticks = 1

\* the cache and the key a request has written
Wrote(r) == r.touched \cap {"tokenAuthCache.set", "userCache.set"}
WrittenKey(r) == IF r.op = "byToken" THEN <<"token", r.token>> ELSE <<"user", r.uid>>

\* C23: any two writes to the same key of the same cache carry the same
\* value, whatever the interleaving of the resolutions, of aborts and of
\* writes to the user table from outside
C23_WritesIdempotent ==
  \A r1 \in inflight : \A r2 \in inflight :
    (Wrote(r1) # {} /\ Wrote(r2) # {} /\ WrittenKey(r1) = WrittenKey(r2)) =>
      r1.user = r2.user

\* two byUserID requests have ended; the one that read the user's row before
\* it was rewritten has written the cache after the one that read it later,
\* and the cache holds the row that is no longer in the table
C23_StaleWriteLandsLast ==
  /\ \E r1 \in inflight : \E r2 \in inflight :
       /\ r1.op = "byUserID" /\ r2.op = "byUserID"
       /\ r1.pc = "done" /\ r2.pc = "done"
       /\ Wrote(r1) # {} /\ Wrote(r2) # {}
       /\ r1.uid = r2.uid
       /\ r1.user # r2.user
       /\ \E row \in userStore : Projection(row) = r2.user
       /\ \E e \in userCache : e.key = r1.uid /\ e.value = r1.user
  /\ change # NoChange

-----------------------------------------------------------------------------
(* The route handlers of subject topics, posts and the timeline.  A request  *)
(* carries the id of the user it was authenticated as; its context is the    *)
(* one lib/auth builds for that user.                                        *)

\* number of requests in one behaviour that write a table
MaxWrites == 2

\* lib/topic/type.ts CommentState, by name
CommentStates ==
  {"Normal", "AdminCloseTopic", "AdminReopen", "AdminPin", "AdminMerge",
   "AdminSilentTopic", "UserDelete", "AdminDelete", "AdminOffTopic"}

\* lib/topic/state.ts
canReplyPost(state) == state \notin {"AdminCloseTopic", "AdminReopen", "AdminSilentTopic"}
canEditTopic(state) == state \in {"AdminReopen", "AdminPin", "Normal"}

SubjectRow(id, ban, nsfw, counts) == [id |-> id, ban |-> ban, nsfw |-> nsfw, counts |-> counts]
TopicRow(id, uid, subjectID, title, replies, state, display) ==
  [id |-> id, uid |-> uid, subjectID |-> subjectID, title |-> title,
   replies |-> replies, state |-> state, display |-> display]
PostRow(id, mid, uid, related, state, content) ==
  [id |-> id, mid |-> mid, uid |-> uid, related |-> related, state |-> state,
   content |-> content]

\* select ... where id = ? limit 1: the set of rows found, empty or one row
ByID(table, id) == {row \in table : row.id = id}
Row(table, id) == CHOOSE row \in table : row.id = id

\* insertId of an auto-increment table
RECURSIVE MaxID(_)
MaxID(table) ==
  IF table = {} THEN 0
  ELSE LET row == CHOOSE r \in table : TRUE
           rest == MaxID(table \ {row})
       IN IF row.id > rest THEN row.id ELSE rest
insertId(table) == MaxID(table) + 1

\* request bodies: a text, a text with a zero-width character and a text of
\* 381 characters; a turnstile token the service accepts and one it rejects
Unprintable == "b<U+200B>"
TooLong == "b x 381"
allCharacterPrintable(text) == text # Unprintable
length(text) == IF text = TooLong THEN 381 ELSE 1
verify(turnstileToken) == turnstileToken = "pass"

\* dam.needReview: no text of the requests needs review
needReview(text) == FALSE

\* the context lib/auth hands to the handler for the session of user id
\* (0: no session)
AuthOf(uid) ==
  IF uid = 0 THEN emptyAuth ELSE userToAuth(fetchUserX(uid).user, {}).auth

\* routes/hooks/pre-handler.ts requireLogin
requireLogin(auth) == auth.login

\* fetcher.fetchSlimSubjectByID(subjectID, allowNsfw)
fetchSlimSubjectByID(subjectID, allowNsfw) ==
  {row \in subjects : row.id = subjectID /\ row.ban # 1 /\ (allowNsfw \/ ~ row.nsfw)}

\* users 1 (an ordinary member) and 2 (a member of the banned group, whose
\* permission has ban_post), both registered long ago
SiteUsers == {UserRow(1, "u1", 10, 0), UserRow(2, "u2", 5, 0)}
SiteGroups == {GroupRow(10, TRUE, NormalPerm),
               GroupRow(5, TRUE, {<<"ban_post", "1">>, <<"ban_visit", "0">>})}

NoCounts == [type \in {} |-> 0]
BoardSubjects == {SubjectRow(1, 0, FALSE, NoCounts), SubjectRow(2, 0, TRUE, NoCounts)}

\* topic 1 of user 1 with its content post 1, the reply 2 and the sub-reply 3
\* to it by user 2; topic 2 of user 2; topic 3 of user 1, closed by an admin,
\* with the record of the closing, post 4; post 5 of user 1 in topic 1, deleted
\* by an admin
BoardTopics ==
  {TopicRow(1, 1, 1, "a", 2, "Normal", "Normal"),
   TopicRow(2, 2, 1, "a", 0, "Normal", "Normal"),
   TopicRow(3, 1, 1, "a", 0, "AdminCloseTopic", "Normal")}
BoardPosts ==
  {PostRow(1, 1, 1, 0, "Normal", "a"),
   PostRow(2, 1, 1, 0, "Normal", "a"),
   PostRow(3, 1, 2, 2, "Normal", "a"),
   PostRow(4, 3, 1, 0, "AdminCloseTopic", "a"),
   PostRow(5, 1, 1, 0, "AdminDelete", "a")}

InitBoard ==
  /\ now = StartTime
  /\ ticks = 0
  /\ tokenStore = {}
  /\ userStore = SiteUsers
  /\ groupStore = SiteGroups
  /\ tokenAuthCache = {}
  /\ userCache = {}
  /\ permissionCache = {}
  /\ defaultPermission = PermObj({"ban_post", "ban_visit"}, {"ban_post", "ban_visit"},
                                 FALSE, TRUE)
  /\ last = NoCall
  /\ inflight = {}
  /\ change = NoChange
  /\ first = NoFirst
  /\ subjects = BoardSubjects
  /\ interests = {}
  /\ topics = BoardTopics
  /\ posts = BoardPosts
  /\ timeline = {}
  /\ notifications = {}
  /\ pending = {}
  /\ resp = NoResponse
  /\ writes = 0
  /\ twin = NoTwin
  /\ sessions = {}
  /\ limiter = {}

\* what the handlers of this section leave as it is
authVars == <<now, ticks, tokenStore, userStore, groupStore, tokenAuthCache, userCache,
             permissionCache, defaultPermission, last, inflight, change, first, others>>

\* the response to a request: the request and the error thrown, or "ok"
Response(req, status) == [op |-> req.op, req |-> req, status |-> status]

\* the response has reached the client; the next request is served
Deliver ==
  /\ resp # NoResponse
  /\ resp' = NoResponse
  /\ UNCHANGED <<subjects, interests, topics, posts, timeline, notifications,
                 pending, writes>>
  /\ UNCHANGED authVars

\* a request ends with an error: nothing was written
Fail(req, status) ==
  /\ resp = NoResponse
  /\ resp' = Response(req, status)
  /\ UNCHANGED <<subjects, interests, topics, posts, timeline, notifications,
                 pending, writes>>

\* a request that wrote ends: the response is sent
Done(req) ==
  /\ resp = NoResponse
  /\ writes < MaxWrites
  /\ resp' = Response(req, "ok")
  /\ writes' = writes + 1

PostIDs == {1, 2, 3, 4, 5, 6, 9}
TopicIDs == {1, 2, 3, 9}
Sessions == {0, 1, 2}

\* POST /subjects/:subjectID/topics
createSubjectTopicStatus(req) ==
  LET a == AuthOf(req.uid)
  IN IF ~ requireLogin(a) THEN "NeedLogin"
     ELSE IF ~ verify(req.turnstileToken) THEN "Captcha"
     ELSE IF Has(a.permission, "ban_post") THEN "NotAllowed"
     ELSE IF ~ allCharacterPrintable(req.title) THEN "BadRequest"
     ELSE IF ~ allCharacterPrintable(req.content) THEN "BadRequest"
     ELSE IF fetchSlimSubjectByID(req.subjectID, a.allowNsfw) = {} THEN "NotFound"
     ELSE IF req.limited THEN "TooManyRequests"
     ELSE "ok"

CreateTopicRequests ==
  {r \in [op : {"createSubjectTopic"}, uid : Sessions, subjectID : {1, 9},
          title : {"b", Unprintable}, content : {"b", Unprintable},
          turnstileToken : {"pass", "fail"}, limited : BOOLEAN] :
     /\ r.title = r.content \/ r.uid = 1
     /\ r.limited => (r.uid = 1 /\ r.title = "b" /\ r.content = "b")
     /\ r.subjectID = 9 => (r.uid = 1 /\ r.title = "b" /\ r.content = "b")}

CreateSubjectTopic ==
  /\ resp = NoResponse
  /\ \E req \in CreateTopicRequests :
      IF createSubjectTopicStatus(req) # "ok"
      THEN Fail(req, createSubjectTopicStatus(req)) /\ UNCHANGED authVars
      ELSE /\ Done(req)
           /\ topics' = topics \cup
                {TopicRow(insertId(topics), req.uid, req.subjectID, req.title, 0, "Normal",
                          IF needReview(req.title) \/ needReview(req.content)
                          THEN "Review" ELSE "Normal")}
           /\ posts' = posts \cup
                {PostRow(insertId(posts), insertId(topics), req.uid, 0, "Normal",
                         req.content)}
           /\ UNCHANGED <<subjects, interests, timeline, notifications, pending>>
           /\ UNCHANGED authVars

\* PUT /subjects/-/topics/:topicID
updateSubjectTopicStatus(req) ==
  LET a == AuthOf(req.uid)
  IN IF ~ requireLogin(a) THEN "NeedLogin"
     ELSE IF Has(a.permission, "ban_post") THEN "NotAllowed"
     ELSE IF ~ allCharacterPrintable(req.content) THEN "BadRequest"
     ELSE IF ByID(topics, req.topicID) = {} THEN "NotFound"
     ELSE IF ~ canEditTopic(Row(topics, req.topicID).state) THEN "NotAllowed"
     ELSE IF Row(topics, req.topicID).uid # a.userID THEN "NotAllowed"
     ELSE "ok"

UpdateTopicRequests ==
  {r \in [op : {"updateSubjectTopic"}, uid : Sessions, topicID : TopicIDs,
          title : {"b"}, content : {"b", Unprintable}] :
     r.content = "b" \/ r.topicID = 1}

UpdateSubjectTopic ==
  /\ resp = NoResponse
  /\ \E req \in UpdateTopicRequests :
      IF updateSubjectTopicStatus(req) # "ok"
      THEN Fail(req, updateSubjectTopicStatus(req)) /\ UNCHANGED authVars
      ELSE LET topic == Row(topics, req.topicID)
               review == needReview(req.title) \/ needReview(req.content)
           IN /\ Done(req)
              /\ IF review /\ topic.display # "Normal"
                 THEN UNCHANGED <<topics, posts>>
                 ELSE /\ topics' = (topics \ {topic}) \cup
                           {[topic EXCEPT !.title = req.title,
                                          !.display = IF review THEN "Review" ELSE @]}
                      /\ posts' = {IF row.mid = req.topicID
                                   THEN [row EXCEPT !.content = req.content]
                                   ELSE row : row \in posts}
              /\ UNCHANGED <<subjects, interests, timeline, notifications, pending>>
              /\ UNCHANGED authVars

\* the lookup of a reply to the post left out of editSubjectPost
editSubjectPostStatus_noReply(req) ==
  LET a == AuthOf(req.uid)
  IN IF ~ requireLogin(a) THEN "NeedLogin"
     ELSE IF Has(a.permission, "ban_post") THEN "NotAllowed"
     ELSE IF ~ allCharacterPrintable(req.content) THEN "BadRequest"
     ELSE IF ByID(posts, req.postID) = {} THEN "NotFound"
     ELSE LET post == Row(posts, req.postID)
          IN IF post.uid # a.userID THEN "NotAllowed"
             ELSE IF ByID(topics, post.mid) = {} THEN "UnexpectedNotFound"
             ELSE IF Row(topics, post.mid).state = "AdminCloseTopic" THEN "NotAllowed"
             ELSE IF post.state \in {"AdminDelete", "UserDelete"} THEN "NotAllowed"
             ELSE "ok"

\* PUT /subjects/-/posts/:postID
editSubjectPostStatus(req) ==
  LET a == AuthOf(req.uid)
  IN IF ~ requireLogin(a) THEN "NeedLogin"
     ELSE IF Has(a.permission, "ban_post") THEN "NotAllowed"
     ELSE IF ~ allCharacterPrintable(req.content) THEN "BadRequest"
     ELSE IF ByID(posts, req.postID) = {} THEN "NotFound"
     ELSE LET post == Row(posts, req.postID)
          IN IF post.uid # a.userID THEN "NotAllowed"
             ELSE IF ByID(topics, post.mid) = {} THEN "UnexpectedNotFound"
             ELSE IF Row(topics, post.mid).state = "AdminCloseTopic" THEN "NotAllowed"
             ELSE IF post.state \in {"AdminDelete", "UserDelete"} THEN "NotAllowed"
             ELSE IF \E reply \in posts :
                       reply.mid = Row(topics, post.mid).id /\ reply.related = req.postID
             THEN "NotAllowed"
             ELSE "ok"

EditPostRequests ==
  {r \in [op : {"editSubjectPost"}, uid : Sessions, postID : PostIDs,
          content : {"b", Unprintable}] :
     r.content = "b" \/ r.postID \in {1, 9}}

EditSubjectPost ==
  /\ resp = NoResponse
  /\ \E req \in EditPostRequests :
      IF editSubjectPostStatus(req) # "ok"
      THEN Fail(req, editSubjectPostStatus(req)) /\ UNCHANGED authVars
      ELSE /\ Done(req)
           /\ posts' = {IF row.id = req.postID
                        THEN [row EXCEPT !.content = req.content]
                        ELSE row : row \in posts}
           /\ UNCHANGED <<subjects, interests, topics, timeline, notifications, pending>>
           /\ UNCHANGED authVars

\* the comparison of the post's uid with the requester left out
deleteSubjectPostStatus_anyone(req) ==
  LET a == AuthOf(req.uid)
  IN IF ~ requireLogin(a) THEN "NeedLogin"
     ELSE IF ByID(posts, req.postID) = {} THEN "NotFound"
     ELSE "ok"

\* DELETE /subjects/-/posts/:postID
deleteSubjectPostStatus(req) ==
  LET a == AuthOf(req.uid)
  IN IF ~ requireLogin(a) THEN "NeedLogin"
     ELSE IF ByID(posts, req.postID) = {} THEN "NotFound"
     ELSE IF Row(posts, req.postID).uid # a.userID THEN "NotAllowed"
     ELSE "ok"

DeletePostRequests == [op : {"deleteSubjectPost"}, uid : Sessions, postID : PostIDs]

DeleteSubjectPost ==
  /\ resp = NoResponse
  /\ \E req \in DeletePostRequests :
      IF deleteSubjectPostStatus(req) # "ok"
      THEN Fail(req, deleteSubjectPostStatus(req)) /\ UNCHANGED authVars
      ELSE /\ Done(req)
           /\ posts' = {IF row.id = req.postID
                        THEN [row EXCEPT !.state = "UserDelete"]
                        ELSE row : row \in posts}
           /\ UNCHANGED <<subjects, interests, topics, timeline, notifications, pending>>
           /\ UNCHANGED authVars

\* the check of ban_post left out of createSubjectReply
createSubjectReplyStatus_noBan(req) ==
  LET a == AuthOf(req.uid)
  IN IF ~ requireLogin(a) THEN "NeedLogin"
     ELSE IF ~ verify(req.turnstileToken) THEN "Captcha"
     ELSE IF ~ allCharacterPrintable(req.content) THEN "BadRequest"
     ELSE IF ByID(topics, req.topicID) = {} THEN "NotFound"
     ELSE IF Row(topics, req.topicID).state = "AdminCloseTopic" THEN "NotAllowed"
     ELSE IF req.replyTo # 0 /\ ByID(posts, req.replyTo) = {} THEN "NotFound"
     ELSE IF req.replyTo # 0 /\ ~ canReplyPost(Row(posts, req.replyTo).state)
     THEN "NotAllowed"
     ELSE IF req.limited THEN "TooManyRequests"
     ELSE "ok"

\* POST /subjects/-/topics/:topicID/replies
createSubjectReplyStatus(req) ==
  LET a == AuthOf(req.uid)
  IN IF ~ requireLogin(a) THEN "NeedLogin"
     ELSE IF ~ verify(req.turnstileToken) THEN "Captcha"
     ELSE IF Has(a.permission, "ban_post") THEN "NotAllowed"
     ELSE IF ~ allCharacterPrintable(req.content) THEN "BadRequest"
     ELSE IF ByID(topics, req.topicID) = {} THEN "NotFound"
     ELSE IF Row(topics, req.topicID).state = "AdminCloseTopic" THEN "NotAllowed"
     ELSE IF req.replyTo # 0 /\ ByID(posts, req.replyTo) = {} THEN "NotFound"
     ELSE IF req.replyTo # 0 /\ ~ canReplyPost(Row(posts, req.replyTo).state)
     THEN "NotAllowed"
     ELSE IF req.limited THEN "TooManyRequests"
     ELSE "ok"

\* the notification addressed to the topic's creator whatever replyTo is
replyNotification_topicCreator(req, topic, postID) ==
  [destUserID |-> topic.uid,
   sourceUserID |-> req.uid,
   type |-> IF req.replyTo = 0 THEN "SubjectTopicReply" ELSE "SubjectPostReply",
   postID |-> postID,
   topicID |-> topic.id,
   title |-> topic.title]

\* the argument of Notify.create: notifyUserID is the topic's creator, or the
\* author of the post replied to
replyNotification(req, topic, postID) ==
  [destUserID |-> IF req.replyTo # 0 THEN Row(posts, req.replyTo).uid ELSE topic.uid,
   sourceUserID |-> req.uid,
   type |-> IF req.replyTo = 0 THEN "SubjectTopicReply" ELSE "SubjectPostReply",
   postID |-> postID,
   topicID |-> topic.id,
   title |-> topic.title]

CreateReplyRequests ==
  {r \in [op : {"createSubjectReply"}, uid : Sessions, topicID : TopicIDs,
          replyTo : {0, 2, 3, 4, 9}, content : {"b", Unprintable},
          turnstileToken : {"pass", "fail"}, limited : BOOLEAN] :
     /\ (r.topicID # 1 \/ r.replyTo # 0) =>
          (r.uid = 1 /\ r.content = "b" /\ r.turnstileToken = "pass")
     /\ (r.topicID # 1 /\ r.replyTo # 0) => r.topicID = 2 /\ r.replyTo = 3
     /\ r.limited =>
          (r.uid = 1 /\ r.content = "b" /\ r.turnstileToken = "pass"
             /\ r.topicID = 1 /\ r.replyTo = 0)}

\* the handler up to the end of its transaction: the Normal posts of the topic
\* are counted, the post is inserted, the topic's replies set to the count;
\* the request is then suspended at `await Notify.create`
CreateSubjectReply ==
  /\ resp = NoResponse
  /\ \E req \in CreateReplyRequests :
      IF createSubjectReplyStatus(req) # "ok"
      THEN Fail(req, createSubjectReplyStatus(req)) /\ UNCHANGED authVars
      ELSE LET topic == Row(topics, req.topicID)
               count == Cardinality({row \in posts :
                                       row.mid = req.topicID /\ row.state = "Normal"})
               postID == insertId(posts)
           IN /\ pending = {}
              /\ resp = NoResponse
              /\ writes < MaxWrites
              /\ writes' = writes + 1
              /\ resp' = Response(req, "suspended")
              /\ posts' = posts \cup
                   {PostRow(postID, req.topicID, req.uid, req.replyTo, "Normal",
                            req.content)}
              /\ topics' = (topics \ {topic}) \cup {[topic EXCEPT !.replies = count]}
              /\ pending' = {[req |-> req, notify |-> replyNotification(req, topic, postID)]}
              /\ UNCHANGED <<subjects, interests, timeline, notifications>>
              /\ UNCHANGED authVars

\* Notify.create and the response of a suspended createSubjectReply
NotifyReply ==
  \E call \in pending :
    /\ resp = NoResponse
    /\ notifications' = notifications \cup
         {[id |-> insertId(notifications), n |-> call.notify]}
    /\ pending' = pending \ {call}
    /\ resp' = Response(call.req, "ok")
    /\ UNCHANGED <<subjects, interests, topics, posts, timeline, writes>>
    /\ UNCHANGED authVars

\* POST /timeline (routes/private/routes/timeline.ts)
createTimelineSayStatus(req) ==
  LET a == AuthOf(req.uid)
  IN IF ~ requireLogin(a) THEN "NeedLogin"
     ELSE IF ~ verify(req.turnstileToken) THEN "Captcha"
     ELSE IF ~ allCharacterPrintable(req.content) THEN "BadRequest"
     ELSE IF Has(a.permission, "ban_post") THEN "NotAllowed"
     ELSE IF length(req.content) > 380 THEN "BadRequest"
     ELSE IF req.limited THEN "TooManyRequests"
     ELSE "ok"

TimelineSayRequests ==
  {r \in [op : {"createTimelineSay"}, uid : Sessions,
          content : {"b", Unprintable, TooLong},
          turnstileToken : {"pass", "fail"}, limited : BOOLEAN] :
     r.limited => (r.uid = 1 /\ r.content = "b" /\ r.turnstileToken = "pass")}

CreateTimelineSay ==
  /\ resp = NoResponse
  /\ \E req \in TimelineSayRequests :
      IF createTimelineSayStatus(req) # "ok"
      THEN Fail(req, createTimelineSayStatus(req)) /\ UNCHANGED authVars
      ELSE /\ Done(req)
           /\ timeline' = timeline \cup
                {[id |-> insertId(timeline), uid |-> req.uid, memo |-> req.content]}
           /\ UNCHANGED <<subjects, interests, topics, posts, notifications, pending>>
           /\ UNCHANGED authVars

NextBoard ==
  \/ CreateSubjectTopic \/ UpdateSubjectTopic \/ EditSubjectPost \/ DeleteSubjectPost
  \/ CreateSubjectReply \/ NotifyReply \/ CreateTimelineSay \/ Deliver

SpecBoard == InitBoard /\ [][NextBoard]_vars

-----------------------------------------------------------------------------
(* Properties of the topic, post and timeline handlers (SpecBoard) *)

\* the permission record of the user a request was authenticated as has
\* ban_post, read from the user's group row
BanPost(uid) ==
  \E u \in userStore, g \in groupStore :
    /\ u.id = uid
    /\ g.id = u.groupid
    /\ <<"ban_post", "1">> \in g.entries

\* the latest response answers a request of a ban_post user to one of the
\* handlers that create or edit content
BannedRequest ==
  /\ resp.op \in {"createSubjectTopic", "createSubjectReply", "updateSubjectTopic",
                  "editSubjectPost", "createTimelineSay"}
  /\ BanPost(resp.req.uid)

\* C16 as claimed: every such request ends with NotAllowed.
C16_Original ==
  BannedRequest => resp.status = "NotAllowed"

\* C16 amended: a request whose context has ban_post never creates or edits
\* content: the topic, post and timeline tables are unchanged, no notification
\* is created or left to be created, and the request ends with an error, which
\* is NotAllowed unless an earlier check of the handler fails: Captcha for
\* createSubjectTopic, createSubjectReply and createTimelineSay with a
\* turnstile token that does not verify, BadRequest for createTimelineSay with
\* an unprintable text.
C16_BanPostWritesNothing ==
  [][ BannedRequest' /\ resp = NoResponse =>
        /\ UNCHANGED <<topics, posts, timeline, notifications, pending>>
        /\ resp'.status =
             IF /\ resp'.op \in {"createSubjectTopic", "createSubjectReply",
                                 "createTimelineSay"}
                /\ resp'.req.turnstileToken # "pass"
             THEN "Captcha"
             ELSE IF resp'.op = "createTimelineSay" /\ resp'.req.content = Unprintable
             THEN "BadRequest"
             ELSE "NotAllowed" ]_vars

\* C16 witness: the reply of a ban_post user with a verified captcha to an
\* open topic has ended with NotAllowed and no post of the user was added
C16_Witness ==
  /\ BannedRequest
  /\ resp.op = "createSubjectReply"
  /\ resp.req.turnstileToken = "pass"
  /\ resp.req.topicID = 1
  /\ resp.status = "NotAllowed"
  /\ posts = BoardPosts
  /\ notifications = {}

\* the post a request names, as a set: empty if there is none
Named(postID) == {row \in posts : row.id = postID}

\* the conditions of the claim, for the request req and the tables as they are
Creator(req) == \E post \in Named(req.postID) : post.uid = req.uid
TopicClosed(req) ==
  \E post \in Named(req.postID), topic \in topics :
    topic.id = post.mid /\ topic.state = "AdminCloseTopic"
TopicGone(req) ==
  \E post \in Named(req.postID) : ~ \E topic \in topics : topic.id = post.mid
Deleted(req) ==
  \E post \in Named(req.postID) : post.state \in {"AdminDelete", "UserDelete"}
HasReply(req) ==
  \E post \in Named(req.postID), reply \in posts :
    reply.mid = post.mid /\ reply.related = post.id
EditConditions(req) ==
  /\ req.uid # 0
  /\ ~ BanPost(req.uid)
  /\ Named(req.postID) # {}
  /\ Creator(req)
  /\ ~ TopicClosed(req)
  /\ ~ Deleted(req)
  /\ ~ HasReply(req)

\* the step is the handling of an editSubjectPost request
EditStep == resp = NoResponse /\ resp'.op = "editSubjectPost"

\* C17 as claimed, for requesters who are logged in: the content changes only
\* when all the conditions hold, and in every other case the call fails with
\* NotFound for a missing post and NotAllowed otherwise (either of the two
\* when a ban_post requester names a missing post), the posts unchanged.
C17_Original ==
  [][ (EditStep /\ resp'.req.uid # 0) =>
        /\ posts' # posts => EditConditions(resp'.req)
        /\ ~ EditConditions(resp'.req) =>
             /\ posts' = posts
             /\ resp'.status \in {"NotFound", "NotAllowed"}
             /\ resp'.status = "NotFound" => Named(resp'.req.postID) = {}
             /\ (Named(resp'.req.postID) = {} /\ ~ BanPost(resp'.req.uid)) =>
                  resp'.status = "NotFound" ]_vars

\* C17 amended: the content changes only when all the conditions hold, the new
\* content is printable and the row of the post's topic exists, and then only
\* the content of that post changes; in every other case the posts are
\* unchanged and the call fails with the error of the first check that fails,
\* in the order: NeedLogin (not logged in), NotAllowed (ban_post), BadRequest
\* (unprintable content), NotFound (missing post), NotAllowed (not the
\* creator), UnexpectedNotFound (no topic row), NotAllowed (closed topic,
\* deleted post, post with a reply).
C17_EditOnlyWhenAllowed ==
  [][ EditStep =>
        LET req == resp'.req
            good == /\ EditConditions(req)
                    /\ req.content # Unprintable
                    /\ ~ TopicGone(req)
        IN /\ posts' # posts => good
           /\ good =>
                /\ resp'.status = "ok"
                /\ posts' = {IF row.id = req.postID
                             THEN [row EXCEPT !.content = req.content]
                             ELSE row : row \in posts}
           /\ ~ good =>
                /\ posts' = posts
                /\ resp'.status =
                     IF req.uid = 0 THEN "NeedLogin"
                     ELSE IF BanPost(req.uid) THEN "NotAllowed"
                     ELSE IF req.content = Unprintable THEN "BadRequest"
                     ELSE IF Named(req.postID) = {} THEN "NotFound"
                     ELSE IF ~ Creator(req) THEN "NotAllowed"
                     ELSE IF TopicGone(req) THEN "UnexpectedNotFound"
                     ELSE "NotAllowed"
           /\ UNCHANGED <<topics, timeline, notifications, pending>> ]_vars

\* C17 witness: the creator's edit of a post that has a reply has ended with
\* NotAllowed, the content as it was
C17_Witness ==
  /\ resp.op = "editSubjectPost"
  /\ resp.req.uid = 1
  /\ resp.req.content = "b"
  /\ Creator(resp.req)
  /\ HasReply(resp.req)
  /\ ~ TopicClosed(resp.req)
  /\ ~ Deleted(resp.req)
  /\ resp.status = "NotAllowed"
  /\ \A post \in Named(resp.req.postID) : post.content = "a"

\* the step is the handling of a deleteSubjectPost request
DeleteStep == resp = NoResponse /\ resp'.op = "deleteSubjectPost"

\* C18: deleteSubjectPost rejects an anonymous request with NeedLogin (401),
\* answers NotFound for a post id that does not exist and NotAllowed to a
\* requester who is not the post's creator, each leaving every post unchanged;
\* for the creator the post's state becomes UserDelete and nothing else
\* changes (content, other posts, the topic row), and a repeated call leaves
\* the same state.
C18_DeleteSubjectPost ==
  [][ DeleteStep =>
        LET req == resp'.req
        IN /\ req.uid = 0 => (resp'.status = "NeedLogin" /\ posts' = posts)
           /\ (req.uid # 0 /\ Named(req.postID) = {}) =>
                (resp'.status = "NotFound" /\ posts' = posts)
           /\ (req.uid # 0 /\ Named(req.postID) # {} /\ ~ Creator(req)) =>
                (resp'.status = "NotAllowed" /\ posts' = posts)
           /\ (req.uid # 0 /\ Creator(req)) =>
                /\ resp'.status = "ok"
                /\ \A post \in posts :
                     IF post.id = req.postID
                     THEN [post EXCEPT !.state = "UserDelete"] \in posts'
                     ELSE post \in posts'
                /\ Cardinality(posts') = Cardinality(posts)
                /\ (\A post \in Named(req.postID) : post.state = "UserDelete") =>
                     posts' = posts
           /\ UNCHANGED <<topics, timeline, notifications, pending, subjects>> ]_vars

\* C18 witness: the creator has deleted post 1 twice: both requests that wrote
\* were this one, and the tables differ from the initial ones in the state of
\* post 1 only
C18_Witness ==
  /\ resp.op = "deleteSubjectPost"
  /\ resp.status = "ok"
  /\ resp.req.postID = 1
  /\ writes = 2
  /\ posts = (BoardPosts \ {PostRow(1, 1, 1, 0, "Normal", "a")})
               \cup {PostRow(1, 1, 1, 0, "UserDelete", "a")}
  /\ topics = BoardTopics
  /\ timeline = {}

\* the step is the handling of a createSubjectReply request: up to the end of
\* its transaction (status suspended) or from there to its response
ReplyStep == resp = NoResponse /\ resp'.op = "createSubjectReply"

\* a reason of the claim for which the reply must fail
ReplyMustFail(req) ==
  \/ req.turnstileToken # "pass"
  \/ BanPost(req.uid)
  \/ ~ \E topic \in topics : topic.id = req.topicID
  \/ \E topic \in topics : topic.id = req.topicID /\ topic.state = "AdminCloseTopic"
  \/ /\ req.replyTo # 0
     /\ \/ Named(req.replyTo) = {}
        \/ \E parent \in Named(req.replyTo) :
             parent.state \in {"AdminCloseTopic", "AdminReopen", "AdminSilentTopic"}

-----------------------------------------------------------------------------
(* The subject handlers getSubject and collectSubject.  collectSubject runs  *)
(* its reads and writes in one transaction: the reads are plain selects of   *)
(* the rows as they are when the transaction starts, the writes are applied  *)
(* to the rows as they are when the transaction commits.                     *)

\* number of collectSubject transactions open at the same time
MaxOpen == 2

\* lib/subject/type.ts CollectionType and getCollectionTypeField
CollectionTypes == 1 .. 5
getCollectionTypeField(type) ==
  CASE type = 1 -> "wish"
    [] type = 2 -> "done"
    [] type = 3 -> "doing"
    [] type = 4 -> "onHold"
    [] type = 5 -> "dropped"

\* drizzle increment / decrement: set col = col + 1, set col = col - 1
increment(col) == col + 1
decrement(col) == col - 1

Counts(wish, done, doing) ==
  [wish |-> wish, done |-> done, doing |-> doing, onHold |-> 0, dropped |-> 0]
InterestRow(id, uid, subjectID, type, private) ==
  [id |-> id, uid |-> uid, subjectID |-> subjectID, type |-> type, private |-> private]

\* users 1 (an ordinary member), 2 (a member of the banned group) and 3 (an
\* ordinary member registered one second less than 90 days before the start);
\* users 11 and 12 send no request
SubjectUsers ==
  {UserRow(1, "u1", 10, 0), UserRow(2, "u2", 5, 0),
   UserRow(3, "u3", 10, StartTime - NsfwAge + 1),
   UserRow(11, "u11", 10, 0), UserRow(12, "u12", 10, 0)}

\* subject 1, wished by users 1, 11 and 12; subject 2, nsfw; subject 3, banned
CollectSubjects ==
  {SubjectRow(1, 0, FALSE, Counts(3, 0, 0)),
   SubjectRow(2, 0, TRUE, Counts(0, 0, 0)),
   SubjectRow(3, 1, FALSE, Counts(0, 0, 0))}
CollectInterests ==
  {InterestRow(1, 1, 1, 1, "Public"),
   InterestRow(2, 11, 1, 1, "Public"),
   InterestRow(3, 12, 1, 1, "Public")}

InitSubject ==
  /\ now = StartTime
  /\ ticks = 0
  /\ tokenStore = {}
  /\ userStore = SubjectUsers
  /\ groupStore = SiteGroups
  /\ tokenAuthCache = {}
  /\ userCache = {}
  /\ permissionCache = {}
  /\ defaultPermission = PermObj({"ban_post", "ban_visit"}, {"ban_post", "ban_visit"},
                                 FALSE, TRUE)
  /\ last = NoCall
  /\ inflight = {}
  /\ change = NoChange
  /\ first = NoFirst
  /\ subjects = CollectSubjects
  /\ interests = CollectInterests
  /\ topics = {}
  /\ posts = {}
  /\ timeline = {}
  /\ notifications = {}
  /\ pending = {}
  /\ resp = NoResponse
  /\ writes = 0
  /\ twin = NoTwin
  /\ sessions = {}
  /\ limiter = {}

\* the select of getSubject returns a subject flagged nsfw to every context
getSubjectStatus_noFilter(req) ==
  LET a == AuthOf(req.uid)
      data == {row \in subjects : row.id = req.subjectID /\ row.ban # 1}
  IN IF data = {} THEN "NotFound" ELSE "ok"

\* GET /subjects/:subjectID: "ok" returns the subject of the row selected
getSubjectStatus(req) ==
  LET a == AuthOf(req.uid)
      data == {row \in subjects :
                 /\ row.id = req.subjectID
                 /\ row.ban # 1
                 /\ a.allowNsfw \/ row.nsfw = FALSE}
  IN IF data = {} THEN "NotFound" ELSE "ok"

SubjectSessions == {0, 1, 2, 3}
GetSubjectRequests ==
  [op : {"getSubject"}, uid : SubjectSessions, subjectID : {1, 2, 3, 9}]

GetSubject ==
  /\ resp = NoResponse
  /\ \E req \in GetSubjectRequests :
       /\ resp' = Response(req, getSubjectStatus(req))
       /\ UNCHANGED <<subjects, interests, topics, posts, timeline, notifications,
                      pending, writes>>
       /\ UNCHANGED authVars

\* POST /subjects/:subjectID/collect, up to the transaction
collectSubjectStatus(req) ==
  LET a == AuthOf(req.uid)
  IN IF ~ requireLogin(a) THEN "NeedLogin"
     ELSE IF fetchSlimSubjectByID(req.subjectID, a.allowNsfw) = {} THEN "NotFound"
     ELSE IF req.comment # "" /\ ~ allCharacterPrintable(req.comment) THEN "BadRequest"
     ELSE IF req.comment # "" /\ length(req.comment) > 380 THEN "BadRequest"
     ELSE IF req.limited THEN "TooManyRequests"
     ELSE "ok"

\* CollectionPrivacy of the request
privacy(req) ==
  IF req.comment # ""
       /\ (needReview(req.comment) \/ Has(AuthOf(req.uid).permission, "ban_post"))
  THEN "Ban"
  ELSE IF req.priv THEN "Private" ELSE "Public"

\* type 0 and comment "": the field is not in the body
CollectRequests ==
  {r \in [op : {"collectSubject"}, uid : SubjectSessions, subjectID : {1, 2, 9},
          type : {0, 1, 2, 3}, comment : {"", "b", Unprintable, TooLong},
          priv : BOOLEAN, limited : BOOLEAN] :
     /\ r.subjectID = 9 => r.uid = 1
     /\ r.subjectID = 2 => r.uid \in {1, 3}
     /\ (r.subjectID # 1 \/ r.uid # 1) =>
          (r.type = 1 /\ ~ r.priv /\ ~ r.limited /\ r.comment \in {"", "b"})
     /\ r.comment = "b" => (r.uid = 2 /\ r.subjectID = 1)
     /\ r.uid = 2 => r.comment = "b"
     /\ r.comment # "" => (r.type = 1 /\ ~ r.priv /\ ~ r.limited)
     /\ r.priv => (r.type = 0 /\ ~ r.limited)
     /\ r.limited => r.type = 1}

\* the handler up to the selects of its transaction: the subject and the
\* interest of (user, subject) are read; the request is suspended with what it
\* read
CollectSubjectRead ==
  /\ resp = NoResponse
  /\ \E req \in CollectRequests :
       LET subject == ByID(subjects, req.subjectID)
           interest == {row \in interests :
                          row.uid = req.uid /\ row.subjectID = req.subjectID}
       IN IF collectSubjectStatus(req) # "ok"
          THEN Fail(req, collectSubjectStatus(req)) /\ UNCHANGED authVars
          ELSE IF subject = {}
          THEN Fail(req, "UnexpectedNotFound") /\ UNCHANGED authVars
          ELSE IF interest = {} /\ req.type = 0
          THEN Fail(req, "BadRequest") /\ UNCHANGED authVars
          ELSE /\ Cardinality(pending) < MaxOpen
               /\ writes < MaxWrites
               /\ writes' = writes + 1
               /\ pending' = pending \cup
                    {[id |-> writes + 1, req |-> req, interest |-> interest,
                      privacy |-> privacy(req)]}
               /\ UNCHANGED <<subjects, interests, topics, posts, timeline,
                              notifications, resp>>
               /\ UNCHANGED authVars

\* the rows after `set field = increment(field)` and after
\* `set field = decrement(field)` where id = subjectID
Incremented(rows, subjectID, field) ==
  {IF row.id = subjectID
   THEN [row EXCEPT !.counts = [row.counts EXCEPT ![field] = increment(row.counts[field])]]
   ELSE row : row \in rows}
Decremented(rows, subjectID, field) ==
  {IF row.id = subjectID
   THEN [row EXCEPT !.counts = [row.counts EXCEPT ![field] = decrement(row.counts[field])]]
   ELSE row : row \in rows}

\* the writes of the transaction and its commit.  An interest read at the
\* start is updated by its id: the counters move by the type read at the start.
\* No interest read: a row is inserted and the counter of its type raised;
\* when another request has inserted the row of (user, subject) meanwhile, a
\* unique key on the pair, if the table has one, rejects the insert and the
\* transaction is rolled back.
CollectSubjectWrite ==
  /\ resp = NoResponse
  /\ \E tx \in pending :
       LET req == tx.req
           field == getCollectionTypeField(req.type)
       IN /\ pending' = pending \ {tx}
          /\ UNCHANGED <<topics, posts, timeline, notifications, writes>>
          /\ UNCHANGED authVars
          /\ IF tx.interest # {}
             THEN LET interest == CHOOSE row \in tx.interest : TRUE
                      oldType == interest.type
                      typeUpdated == req.type # 0 /\ oldType # req.type
                      oldField == getCollectionTypeField(oldType)
                  IN /\ subjects' =
                          IF typeUpdated
                          THEN Decremented(Incremented(subjects, req.subjectID, field),
                                           req.subjectID, oldField)
                          ELSE subjects
                     /\ interests' =
                          {IF row.id = interest.id
                           THEN [row EXCEPT
                                   !.type = IF typeUpdated THEN req.type ELSE row.type,
                                   !.private = IF interest.private # tx.privacy
                                               THEN tx.privacy ELSE row.private]
                           ELSE row : row \in interests}
                     /\ resp' = Response(req, "ok")
             ELSE \E unique \in BOOLEAN :
                    IF unique /\ \E row \in interests :
                                    row.uid = req.uid /\ row.subjectID = req.subjectID
                    THEN /\ resp' = Response(req, "DuplicateEntry")
                         /\ UNCHANGED <<subjects, interests>>
                    ELSE /\ interests' = interests \cup
                              {InterestRow(insertId(interests), req.uid, req.subjectID,
                                           req.type, tx.privacy)}
                         /\ subjects' = Incremented(subjects, req.subjectID, field)
                         /\ resp' = Response(req, "ok")

\* the clock advances by a second while no request is being served
SubjectTick ==
  /\ resp = NoResponse
  /\ pending = {}
  /\ ticks < MaxTicks
  /\ now' = now + 1
  /\ ticks' = ticks + 1
  /\ UNCHANGED <<tokenStore, userStore, groupStore, tokenAuthCache, userCache,
                 permissionCache, defaultPermission, last, inflight, change, first>>
  /\ UNCHANGED site

NextSubject ==
  \/ GetSubject \/ CollectSubjectRead \/ CollectSubjectWrite \/ SubjectTick \/ Deliver

SpecSubject == InitSubject /\ [][NextSubject]_vars

-----------------------------------------------------------------------------
(* Properties of the subject handlers (SpecSubject) *)

\* the row of the subject a getSubject request names is flagged nsfw
Flagged(req) == \E row \in subjects : row.id = req.subjectID /\ row.nsfw

\* the request has no session, or the account of its session was registered
\* less than 90 days before now
Newcomer(req) ==
  \/ req.uid = 0
  \/ \E row \in userStore : row.id = req.uid /\ now - row.regdate < NsfwAge

\* C15: a getSubject request whose context has allowNsfw = false gets NotFound
\* for a subject flagged nsfw; the context of a request without a session and
\* the context of an account registered less than 90 days before the request
\* have allowNsfw = false, whatever the permission of the account's group
C15_NsfwNotServed ==
  resp.op = "getSubject" =>
    /\ Newcomer(resp.req) => ~ AuthOf(resp.req.uid).allowNsfw
    /\ (~ AuthOf(resp.req.uid).allowNsfw /\ Flagged(resp.req)) => resp.status = "NotFound"

\* user 3, 90 days less a second old and in the group with subject_edit, has
\* asked for the nsfw subject 2 and got NotFound
C15_Witness ==
  /\ resp.op = "getSubject"
  /\ resp.req.uid = 3
  /\ resp.req.subjectID = 2
  /\ Flagged(resp.req)
  /\ now - fetchUser(3).user.regTime = NsfwAge - 1
  /\ Has(AuthOf(3).permission, "subject_edit")
  /\ resp.status = "NotFound"

\* the number of collections of a subject with a type
Collections(table, subjectID, type) ==
  Cardinality({row \in table : row.subjectID = subjectID /\ row.type = type})

\* C19: each per-type counter of a subject has changed, since the start, by
\* the change in the number of the subject's collections of that type
C19_CountersMatchRows ==
  \A subject \in subjects : \A type \in CollectionTypes :
    LET start == Row(CollectSubjects, subject.id)
        field == getCollectionTypeField(type)
    IN subject.counts[field] - start.counts[field]
         = Collections(interests, subject.id, type)
             - Collections(CollectInterests, subject.id, type)

\* two requests of user 1, both started while the collection was a wish, have
\* changed it to done and to doing: the wish counter has lost 2 for the one
\* collection that left it, done and doing have gained 1 each and the
\* collection has one type
C19_LostDecrement ==
  /\ pending = {}
  /\ writes = 2
  /\ interests \ CollectInterests # {}
  /\ Cardinality(interests) = Cardinality(CollectInterests)
  /\ Collections(interests, 1, 1) = 2
  /\ Row(subjects, 1).counts = Counts(1, 1, 1)

-----------------------------------------------------------------------------
(* Further properties of the topic and post handlers (SpecBoard) *)

UpdateStep == resp = NoResponse /\ resp'.op = "updateSubjectTopic"

\* the content post of a topic: the first post of the topic
ContentPost(topicID) ==
  CHOOSE post \in posts :
    /\ post.mid = topicID
    /\ \A other \in posts : other.mid = topicID => post.id <= other.id

\* C25: an updateSubjectTopic call by the topic's creator that succeeds
\* changes the title and the display of the topic and the content of the
\* topic's content post; every other post, the replies of the topic among
\* them, and every other topic is after the call as it was before
C25_UpdateTopicFrame ==
  [][ (UpdateStep /\ resp'.status = "ok") =>
        LET req == resp'.req
        IN /\ \A topic \in topics : topic.id # req.topicID => topic \in topics'
           /\ \A post \in posts :
                post # ContentPost(req.topicID) => post \in posts'
    ]_vars

\* user 1 has updated topic 1: the reply of user 1 and the sub-reply of user
\* 2 in that topic now have the content of the request
C25_RepliesOverwritten ==
  /\ resp.op = "updateSubjectTopic"
  /\ resp.status = "ok"
  /\ resp.req.topicID = 1
  /\ resp.req.uid = Row(topics, 1).uid
  /\ Row(BoardPosts, 3).uid # resp.req.uid
  /\ Row(BoardPosts, 3).related # 0
  /\ Row(posts, 3).content = resp.req.content
  /\ Row(posts, 3).content # Row(BoardPosts, 3).content
  /\ Row(posts, 2).content = resp.req.content

\* C27: every post that createSubjectReply has created with replyTo
\* different from 0 has its parent in its own topic: the post whose id is the
\* post's related has the post's mid
C27_ParentInSameTopic ==
  \A post \in posts \ BoardPosts :
    post.related # 0 =>
      \E parent \in posts : parent.id = post.related /\ parent.mid = post.mid

\* user 1 has replied in topic 2 to post 3, which belongs to topic 1: the
\* request was answered and the post is in the table
C27_ForeignParent ==
  /\ resp.op = "createSubjectReply"
  /\ resp.status \in {"suspended", "ok"}
  /\ resp.req.topicID = 2
  /\ resp.req.replyTo = 3
  /\ Row(posts, 3).mid = 1
  /\ \E post \in posts \ BoardPosts : post.mid = 2 /\ post.related = 3

-----------------------------------------------------------------------------
(* createSubjectReply with its transaction open across requests (SpecReply):
   the transaction of part_002:1483-1512 reads the count of the topic's Normal
   posts, inserts the post and sets the topic's replies to the count it read.
   The count is a plain select, so a second transaction reads the same count
   until the first has committed. *)

\* the handler up to the count of the transaction: the checks, the topic
\* row, then `select count(*) ... where mid = topicID and state = Normal`
ReplyBegin ==
  /\ resp = NoResponse
  /\ \E req \in CreateReplyRequests :
      IF createSubjectReplyStatus(req) # "ok"
      THEN Fail(req, createSubjectReplyStatus(req)) /\ UNCHANGED authVars
      ELSE /\ Cardinality(pending) < MaxOpen
           /\ writes < MaxWrites
           /\ writes' = writes + 1
           /\ pending' = pending \cup
                {[id |-> writes + 1, req |-> req, pc |-> "tx",
                  topic |-> Row(topics, req.topicID),
                  count |-> Cardinality({row \in posts :
                                           row.mid = req.topicID /\ row.state = "Normal"}),
                  notify |-> replyNotification(req, Row(topics, req.topicID), 0)]}
           /\ UNCHANGED <<subjects, interests, topics, posts, timeline, notifications,
                          resp>>
           /\ UNCHANGED authVars

\* the rest of the transaction and its commit: the post is inserted and the
\* topic's replies set to the count read at the start
ReplyCommit ==
  \E tx \in pending :
    LET postID == insertId(posts)
        topic == Row(topics, tx.req.topicID)
    IN /\ resp = NoResponse
       /\ tx.pc = "tx"
       /\ posts' = posts \cup
            {PostRow(postID, tx.req.topicID, tx.req.uid, tx.req.replyTo, "Normal",
                     tx.req.content)}
       /\ topics' = (topics \ {topic}) \cup {[topic EXCEPT !.replies = tx.count]}
       /\ pending' = (pending \ {tx}) \cup
            {[tx EXCEPT !.pc = "notify",
                        !.notify = replyNotification(tx.req, tx.topic, postID)]}
       /\ UNCHANGED <<subjects, interests, timeline, notifications, resp, writes>>
       /\ UNCHANGED authVars

\* Notify.create and the response of a committed createSubjectReply
ReplyNotify ==
  \E tx \in pending :
    /\ resp = NoResponse
    /\ tx.pc = "notify"
    /\ notifications' = notifications \cup
         {[id |-> insertId(notifications), n |-> tx.notify]}
    /\ pending' = pending \ {tx}
    /\ resp' = Response(tx.req, "ok")
    /\ UNCHANGED <<subjects, interests, topics, posts, timeline, writes>>
    /\ UNCHANGED authVars

NextReply == ReplyBegin \/ ReplyCommit \/ ReplyNotify \/ Deliver

SpecReply == InitBoard /\ [][NextReply]_vars

\* the Normal posts of a topic other than its content post
NormalReplies(topicID) ==
  {row \in posts :
     row.mid = topicID /\ row.state = "Normal" /\ row # ContentPost(topicID)}

\* C26: once every transaction of createSubjectReply has committed, the
\* replies field of each topic that has a content post equals the number of
\* its Normal posts other than the content post
C26_RepliesCounted ==
  (\A tx \in pending : tx.pc # "tx") =>
    \A topic \in topics :
      (\E row \in BoardPosts : row.mid = topic.id) =>
        topic.replies = Cardinality(NormalReplies(topic.id))

\* two replies to topic 1 were open together and both have committed and
\* been answered: topic 1 has four Normal replies and its replies field is 3
C26_LostUpdate ==
  /\ pending = {}
  /\ resp.op = "createSubjectReply"
  /\ resp.status = "ok"
  /\ Cardinality({row \in posts \ BoardPosts : row.mid = 1}) = 2
  /\ Cardinality(NormalReplies(1)) = 4
  /\ Row(topics, 1).replies = 3

-----------------------------------------------------------------------------
(* POST /login (routes/private/routes/login.ts), SpecLogin *)

\* routes/private/routes/login.ts:21-33 and lib/error.ts CaptchaError
NoError == [code |-> "", message |-> "", statusCode |-> 200]
TooManyRequestsError ==
  [code |-> "TOO_MANY_REQUESTS", message |-> "too many failed login attempts",
   statusCode |-> 429]
CaptchaError == [code |-> "CAPTCHA_ERROR", message |-> "wrong captcha", statusCode |-> 401]
EmailOrPasswordError ==
  [code |-> "EMAIL_PASSWORD_ERROR",
   message |-> "email does not exists or email and password not match",
   statusCode |-> 401]
UserBannedError == [code |-> "USER_BANNED", message |-> "user is banned", statusCode |-> 401]

\* limiter.get(limitKey, 600, 10), login.ts:192
LoginWindow == 600
LoginLimit == 10

\* reply.cookie(CookieKey, token, { maxAge: 24 * 60 * 60 * 30 })
CookieMaxAge == 24 * 60 * 60 * 30
NoCookie == [token |-> 0, maxAge |-> 0]

\* lib/auth/index.ts:179-185: the md5 digest of the input, compared by bcrypt
\* with the stored hash
processPassword(s) == <<"md5", s>>
bcrypt(data) == [alg |-> "bcrypt", data |-> data]
compare(data, hashed) == hashed = bcrypt(data)
comparePassword_any(hashed, input) == TRUE
comparePassword(hashed, input) == compare(processPassword(input), hashed)

\* rows of chii_members with the columns login reads
LoginRow(id, name, g, reg, email, password) ==
  [id |-> id, username |-> name, groupid |-> g, regdate |-> reg, email |-> email,
   passwordCrypt |-> bcrypt(processPassword(password))]
LoginUsers ==
  {LoginRow(1, "u1", 10, 0, "a@x", "p1"), LoginRow(2, "u2", 7, 0, "b@x", "p2")}
LoginGroups ==
  {GroupRow(10, TRUE, NormalPerm), GroupRow(7, TRUE, {<<"user_ban", "1">>})}

\* UserRepo.findOne({ where: { email } }): the rows found, empty or one row
findOne(email) == {row \in userStore : row.email = email}

\* lib/utils/rate-limit: a counter per key that lives for the window; a call
\* takes one of the `limit` calls of the window, and a call that finds none
\* left is limited
limitKey(ip) == <<"login-rate-limit", ip>>
Live(lim, key) == {e \in lim : e.key = key /\ now < e.expireAt}
LimiterGet(lim, key, duration, limit) ==
  IF Live(lim, key) = {}
  THEN [remain |-> limit - 1, reset |-> duration, limit |-> limit, limited |-> FALSE,
        limiter |-> {e \in lim : e.key # key} \cup
                      {[key |-> key, remain |-> limit - 1, expireAt |-> now + duration]}]
  ELSE LET e == CHOOSE x \in Live(lim, key) : TRUE
       IN IF e.remain > 0
          THEN [remain |-> e.remain - 1, reset |-> e.expireAt - now, limit |-> limit,
                limited |-> FALSE,
                limiter |-> (lim \ {e}) \cup {[e EXCEPT !.remain = e.remain - 1]}]
          ELSE [remain |-> 0, reset |-> e.expireAt - now, limit |-> limit,
                limited |-> TRUE, limiter |-> lim]
LimiterReset(lim, key) == {e \in lim : e.key # key}

\* the limiter after n calls from ip at StartTime
UsedLimiter(ip, n) ==
  IF n = 0 THEN {}
  ELSE {[key |-> limitKey(ip), remain |-> LoginLimit - n, expireAt |-> StartTime + LoginWindow]}

\* session.create({ id, regTime }): a new session under a token not in use
sessionToken(store) == Cardinality(store) + 1
sessionCreate(store, id, regTime) ==
  store \cup {[token |-> sessionToken(store), userID |-> id, regTime |-> regTime,
               createdAt |-> now]}

\* the rate-limit headers of the reply
RateLimitHeaders(l) == [remaining |-> l.remain, limit |-> l.limit, reset |-> l.reset]

\* the handler up to session.create: the error it throws (NoError if none),
\* the headers set, the calls made in their order, the limiter after
\* limiter.get and the user row
LoginRun(l, error, trace, user) ==
  [error |-> error, headers |-> RateLimitHeaders(l), trace |-> trace,
   limiter |-> l.limiter, limited |-> l.limited, user |-> user]

\* the user looked up before the captcha is verified
loginHandler_userFirst(req) ==
  LET l == LimiterGet(limiter, limitKey(req.ip), LoginWindow, LoginLimit)
      user == findOne(req.email)
  IN IF l.limited
     THEN LoginRun(l, TooManyRequestsError, <<"limiter.get">>, {})
     ELSE IF user = {}
     THEN LoginRun(l, EmailOrPasswordError, <<"limiter.get", "UserRepo.findOne">>, {})
     ELSE IF ~ verify(req.captcha)
     THEN LoginRun(l, CaptchaError,
                    <<"limiter.get", "UserRepo.findOne", "turnstile.verify">>, {})
     ELSE LET u == CHOOSE row \in user : TRUE
          IN IF ~ comparePassword(u.passwordCrypt, req.password)
             THEN LoginRun(l, EmailOrPasswordError,
                            <<"limiter.get", "UserRepo.findOne", "turnstile.verify",
                              "comparePassword">>, {})
             ELSE IF Has(fetchPermission(u.groupid), "user_ban")
             THEN LoginRun(l, UserBannedError,
                            <<"limiter.get", "UserRepo.findOne", "turnstile.verify",
                              "comparePassword", "fetchPermission">>, {})
             ELSE LoginRun(l, NoError,
                            <<"limiter.get", "UserRepo.findOne", "turnstile.verify",
                              "comparePassword", "fetchPermission">>, user)

loginHandler(req) ==
  LET l == LimiterGet(limiter, limitKey(req.ip), LoginWindow, LoginLimit)
      user == findOne(req.email)
  IN IF l.limited
     THEN LoginRun(l, TooManyRequestsError, <<"limiter.get">>, {})
     ELSE IF ~ verify(req.captcha)
     THEN LoginRun(l, CaptchaError, <<"limiter.get", "turnstile.verify">>, {})
     ELSE IF user = {}
     THEN LoginRun(l, EmailOrPasswordError,
                    <<"limiter.get", "turnstile.verify", "UserRepo.findOne">>, {})
     ELSE LET u == CHOOSE row \in user : TRUE
          IN IF ~ comparePassword(u.passwordCrypt, req.password)
             THEN LoginRun(l, EmailOrPasswordError,
                            <<"limiter.get", "turnstile.verify", "UserRepo.findOne",
                              "comparePassword">>, {})
             ELSE IF Has(fetchPermission(u.groupid), "user_ban")
             THEN LoginRun(l, UserBannedError,
                            <<"limiter.get", "turnstile.verify", "UserRepo.findOne",
                              "comparePassword", "fetchPermission">>, {})
             ELSE LoginRun(l, NoError,
                            <<"limiter.get", "turnstile.verify", "UserRepo.findOne",
                              "comparePassword", "fetchPermission">>, user)

LoginRequests ==
  [op : {"login"}, email : {"a@x", "b@x", "n@x"}, password : {"p1", "p2"},
   captcha : {"pass", "fail"}, ip : {"ip1", "ip2"}]

LoginResponse(req, run, status, cookie) ==
  [op |-> "login", req |-> req, status |-> status, error |-> run.error,
   headers |-> run.headers, trace |-> run.trace, limited |-> run.limited,
   cookie |-> cookie]

\* the login table, no session, and an address that has made none, nine or
\* ten of the calls of its window
InitLogin ==
  /\ now = StartTime
  /\ ticks = 0
  /\ tokenStore = {}
  /\ userStore = LoginUsers
  /\ groupStore = LoginGroups
  /\ tokenAuthCache = {}
  /\ userCache = {}
  /\ permissionCache = {}
  /\ defaultPermission = PermObj({"ban_post", "ban_visit"}, {"ban_post", "ban_visit"},
                                 FALSE, TRUE)
  /\ last = NoCall
  /\ inflight = {}
  /\ change = NoChange
  /\ first = NoFirst
  /\ subjects = {}
  /\ interests = {}
  /\ topics = {}
  /\ posts = {}
  /\ timeline = {}
  /\ notifications = {}
  /\ pending = {}
  /\ resp = NoResponse
  /\ writes = 0
  /\ twin = NoTwin
  /\ sessions = {}
  /\ \E n \in {0, LoginLimit - 1, LoginLimit} : limiter = UsedLimiter("ip1", n)

\* the handler up to session.create: a request that fails is answered; one
\* that passes every check has its session and is suspended at
\* `await limiter.reset`
Login ==
  /\ resp = NoResponse
  /\ writes < MaxWrites
  /\ \E req \in LoginRequests :
       LET run == loginHandler(req)
       IN /\ writes' = writes + 1
          /\ limiter' = run.limiter
          /\ IF run.error # NoError
             THEN /\ resp' = LoginResponse(req, run, "error", NoCookie)
                  /\ UNCHANGED <<sessions, pending>>
             ELSE LET u == CHOOSE row \in run.user : TRUE
                  IN /\ Cardinality(pending) < MaxOpen
                     /\ sessions' = sessionCreate(sessions, u.id, u.regdate)
                     /\ pending' = pending \cup
                          {[req |-> req,
                            run |-> [run EXCEPT !.trace = Append(@, "session.create")],
                            token |-> sessionToken(sessions)]}
                     /\ resp' = LoginResponse(req, run, "suspended", NoCookie)
  /\ UNCHANGED <<subjects, interests, topics, posts, timeline, notifications, twin>>
  /\ UNCHANGED <<now, ticks, tokenStore, userStore, groupStore, tokenAuthCache,
                 userCache, permissionCache, defaultPermission, last, inflight,
                 change, first>>

\* limiter.reset, the cookie and the response of a suspended login
LoginReset ==
  \E call \in pending :
    /\ resp = NoResponse
    /\ limiter' = LimiterReset(limiter, limitKey(call.req.ip))
    /\ pending' = pending \ {call}
    /\ resp' = LoginResponse(call.req,
                             [call.run EXCEPT !.trace = @ \o <<"limiter.reset", "reply.cookie">>],
                             "ok", [token |-> call.token, maxAge |-> CookieMaxAge])
    /\ UNCHANGED <<subjects, interests, topics, posts, timeline, notifications, twin,
                   sessions, writes>>
    /\ UNCHANGED <<now, ticks, tokenStore, userStore, groupStore, tokenAuthCache,
                   userCache, permissionCache, defaultPermission, last, inflight,
                   change, first>>

\* the response has reached the client
LoginDeliver ==
  /\ resp # NoResponse
  /\ resp' = NoResponse
  /\ UNCHANGED <<subjects, interests, topics, posts, timeline, notifications, twin,
                 sessions, limiter, pending, writes>>
  /\ UNCHANGED <<now, ticks, tokenStore, userStore, groupStore, tokenAuthCache,
                 userCache, permissionCache, defaultPermission, last, inflight,
                 change, first>>

\* time passes: a second, or the window of the limiter
LoginTick ==
  /\ resp = NoResponse
  /\ ticks < MaxTicks
  /\ \E d \in {1, LoginWindow} : now' = now + d
  /\ ticks' = ticks + 1
  /\ UNCHANGED <<subjects, interests, topics, posts, timeline, notifications, twin,
                 sessions, limiter, pending, resp, writes>>
  /\ UNCHANGED <<tokenStore, userStore, groupStore, tokenAuthCache, userCache,
                 permissionCache, defaultPermission, last, inflight, change, first>>

NextLogin == Login \/ LoginReset \/ LoginDeliver \/ LoginTick

SpecLogin == InitLogin /\ [][NextLogin]_vars

-----------------------------------------------------------------------------
(* Properties of the login handler (SpecLogin) *)

\* a step in which the handler runs up to its error or to session.create,
\* and a step in which a suspended login ends
LoginStep == resp = NoResponse /\ resp'.op = "login" /\ resp'.status # "ok"
LoginEnd == resp = NoResponse /\ resp'.op = "login" /\ resp'.status = "ok"

\* the conditions of the claim for a request, read from the tables
Registered(req) == \E u \in userStore : u.email = req.email
PasswordMatches(req) ==
  \E u \in userStore :
    u.email = req.email /\ u.passwordCrypt = bcrypt(processPassword(req.password))
GroupBanned(req) ==
  \E u \in userStore, g \in groupStore :
    u.email = req.email /\ g.id = u.groupid /\ <<"user_ban", "1">> \in g.entries

\* the calls of the handler in the order of the claim
LoginOrder ==
  <<"limiter.get", "turnstile.verify", "UserRepo.findOne", "comparePassword",
    "fetchPermission", "session.create", "limiter.reset", "reply.cookie">>

\* C28: the handler checks, in this order, the limiter's report, the captcha,
\* the user of the email, the password and user_ban of the group; the first
\* check that fails ends the request with its error after the calls up to
\* that check and no other, with no session created, no cookie and the
\* limiter's entry of the address still there; a request that passes them all
\* gets exactly one new session, of its user, and only then, in the step that
\* ends it, the limiter's entry is removed and the cookie carries the token of
\* that session
C28_LoginOrder ==
  [][ /\ LoginStep =>
          LET req == resp'.req
              error == IF resp'.limited THEN TooManyRequestsError
                       ELSE IF req.captcha # "pass" THEN CaptchaError
                       ELSE IF ~ Registered(req) THEN EmailOrPasswordError
                       ELSE IF ~ PasswordMatches(req) THEN EmailOrPasswordError
                       ELSE IF GroupBanned(req) THEN UserBannedError
                       ELSE NoError
              calls == IF resp'.limited THEN 1
                       ELSE IF req.captcha # "pass" THEN 2
                       ELSE IF ~ Registered(req) THEN 3
                       ELSE IF ~ PasswordMatches(req) THEN 4
                       ELSE 5
          IN /\ resp'.error = error
             /\ resp'.trace = SubSeq(LoginOrder, 1, calls)
             /\ resp'.cookie = NoCookie
             /\ \E e \in limiter' : e.key = limitKey(req.ip)
             /\ error # NoError => sessions' = sessions /\ pending' = pending
             /\ error = NoError =>
                  /\ resp'.status = "suspended"
                  /\ \E s \in sessions' :
                       /\ s \notin sessions
                       /\ sessions' = sessions \cup {s}
                       /\ \E u \in userStore : u.email = req.email /\ u.id = s.userID
      /\ LoginEnd =>
          /\ resp'.error = NoError
          /\ resp'.trace = LoginOrder
          /\ \E s \in sessions : s.token = resp'.cookie.token
          /\ sessions' = sessions
          /\ ~ \E e \in limiter' : e.key = limitKey(resp'.req.ip)
          /\ \A e \in limiter \ limiter' : e.key = limitKey(resp'.req.ip) ]_vars

\* C28 witness: a login from the address that had one call left has ended:
\* the session of user 1 exists, the cookie carries its token and the
\* limiter has no entry of the address
C28_Witness ==
  /\ resp.op = "login"
  /\ resp.status = "ok"
  /\ resp.req.ip = "ip1"
  /\ resp.headers.remaining = 0
  /\ \E s \in sessions : s.token = resp.cookie.token /\ s.userID = 1
  /\ limiter = {}

\* two requests that differ in the email only, one naming an email of no user
\* and the other the email of a user whose password is another one
EmailTwins(r1, r2) ==
  /\ r1.ip = r2.ip
  /\ r1.password = r2.password
  /\ r1.captcha = r2.captcha
  /\ ~ Registered(r1)
  /\ Registered(r2)
  /\ ~ PasswordMatches(r2)

\* C29: when the handler has answered a request, the other request of every
\* pair of EmailTwins, handled in its place, gets the same error (code,
\* message and status), the same rate-limit headers and no cookie, and leaves
\* the same limiter and the same sessions
C29_NoEmailEnumeration ==
  [][ LoginStep =>
        \A other \in LoginRequests :
          (EmailTwins(resp'.req, other) \/ EmailTwins(other, resp'.req)) =>
            /\ loginHandler(other).error = resp'.error
            /\ loginHandler(other).error # NoError
            /\ loginHandler(other).headers = resp'.headers
            /\ loginHandler(other).limiter = limiter'
            /\ sessions' = sessions
            /\ resp'.cookie = NoCookie ]_vars

\* C29 witness: a request with an email of no user, a verified captcha and
\* calls left was answered with EmailOrPasswordError
C29_Witness ==
  /\ resp.op = "login"
  /\ resp.req.email = "n@x"
  /\ resp.req.captcha = "pass"
  /\ resp.error = EmailOrPasswordError
  /\ resp.headers.remaining = 9
  /\ sessions = {}

====
